---- MODULE Spec2Model ----
(***************************************************************************)
(* The weather-aware property search of the weather-api backend:           *)
(* RedisPropertyService (snapshot cache, weather enrichment, filtering,    *)
(* pagination), WeatherService (provider call, fallback record) and the    *)
(* GET /get-properties handler in front of them.                           *)
(*                                                                         *)
(* Conventions.  An optional JavaScript value is a sequence: << >> is      *)
(* undefined/null and <<v>> is the value v.  A JavaScript string that the  *)
(* code searches in (name, city, state) is a sequence of one-character     *)
(* strings.  A coordinate is an integer number of 0.00001 degrees, a       *)
(* provider reading an integer number of tenths.  Every await of the code  *)
(* is one step: the awaited operation takes effect and returns, and the    *)
(* code runs on to its next await.                                         *)
(***************************************************************************)
EXTENDS Integers, Sequences, FiniteSets, TLC

VARIABLES
  db,           \* the store's property table (a set of rows)
  propsCache,   \* Redis value under 'properties:all' (optional sequence)
  weatherCache, \* Redis values under 'weather:<lat>,<lng>' (function key -> record)
  bootPc,       \* position of the constructor's initializeService()
  bootData,     \* redisData computed by that sync, waiting to be written
  pc,           \* per request: position in getProperties/searchProperties
  filters,      \* per request: the EnhancedSearchFilters built from the query
  filtered,     \* per request: filteredProperties (after the basic filters)
  syncData,     \* per request: redisData of its own syncPropertiesToRedis
  input,        \* per request: the argument of attachWeatherData
  tasks,        \* per request: the weatherPromises, one per input
  batchI,       \* per request: loop index i of attachWeatherData
  results,      \* per request: results of attachWeatherData so far
  response,     \* per request: the HTTP response
  errs,         \* per request: which collaborators failed while it ran
  ops,          \* per request: which reads and calls it has made so far
  requestCache, \* index.ts: the Map of the request deduplication middleware
  cacheKey,     \* per request: the middleware's key (undefined without middleware)
  admin,        \* the /admin request in flight and its response
  prev,         \* per key: the previous answer of a search (history)
  wb,           \* one call of WeatherService.getWeatherBatch on a list
  call,         \* one call of a function that keeps no state: name, argument, result
  nodeEnv       \* process.env.NODE_ENV

vars == << db, propsCache, weatherCache, bootPc, bootData, pc, filters, filtered,
           syncData, input, tasks, batchI, results, response, errs,
           ops, requestCache, cacheKey, admin, prev, wb, call, nodeEnv >>

-----------------------------------------------------------------------------
(* Bounds of the model *)

\* Number of request slots that may be in flight together (SpecConc).
MaxReq == 2
\* Number of properties enriched by the one search of SpecBatch.
MaxBatchProps == 11
\* Longest input of attachWeatherData explored by SpecOrder and SpecLive.
MaxOrderProps == 11
\* Longest list of coordinates handed to getWeatherBatch (SpecWeatherBatch).
MaxCoords == 3
\* Number of active properties in the store of SpecSuggest.
MaxSuggestProps == 12
\* Longest list of records handed to filterByWeather (SpecFilterByWeather).
MaxRecords == 2
\* The weather codes the provider is let to report: 0..MaxCode.
MaxCode == 199
\* Number of active properties in the store of SpecPages.
MaxPageProps == 5

(* Program constants *)

batchSize == 10
DefaultLimit == 20
DefaultTemperature == 25
DefaultHumidity == 60
TempLow == -20
TempHigh == 50
HumidityLow == 0
HumidityHigh == 100

Reqs == 1..MaxReq

-----------------------------------------------------------------------------
(* JavaScript values *)

Undefined == << >>
Some(v) == << v >>
IsDefined(x) == x # Undefined
ValueOf(x) == x[1]

\* Truthiness of an optional number: undefined, null and 0 are falsy.
TruthyNum(x) == IsDefined(x) /\ ValueOf(x) # 0
\* Truthiness of an optional string: undefined and "" are falsy.
TruthyStr(x) == IsDefined(x) /\ ValueOf(x) # ""
\* The same for a string kept as a sequence of characters.
TruthyText(x) == IsDefined(x) /\ ValueOf(x) # << >>

Min(a, b) == IF a < b THEN a ELSE b
Max(a, b) == IF a > b THEN a ELSE b

\* Array.prototype.slice(start, end): negative indexes count from the end.
RelIndex(i, len) == IF i < 0 THEN Max(len + i, 0) ELSE Min(i, len)
Slice(s, start, end) ==
  LET k == RelIndex(start, Len(s))
      e == RelIndex(end, Len(s))
  IN  IF k < e THEN SubSeq(s, k + 1, e) ELSE << >>

\* String.prototype.toLowerCase over the alphabet of the fixtures.
LowerChar(c) ==
  CASE c = "A" -> "a" [] c = "B" -> "b" [] c = "C" -> "c" [] OTHER -> c
ToLowerCase(s) == [i \in 1..Len(s) |-> LowerChar(s[i])]

\* String.prototype.includes
Includes(s, sub) ==
  \E i \in 0..(Len(s) - Len(sub)) : \A j \in 1..Len(sub) : s[i + j] = sub[j]

\* Math.round of a number given in tenths (halves round towards +infinity).
RoundTenths(x) == (x + 5) \div 10

\* Number.prototype.toFixed(4) of a non-negative coordinate given in 0.00001s.
ToFixed4(x) == (x + 5) \div 10

-----------------------------------------------------------------------------
(* WeatherService (services/weather.service.ts) *)

\* The mapWeatherCode of the older WeatherService kept in the repository
\* (part_003): a code outside the table is reported as Unknown.
mapWeatherCodeUnknown(code) ==
  IF code = 0 THEN "Clear"
  ELSE IF code >= 1 /\ code <= 3 THEN "Cloudy"
  ELSE IF code >= 51 /\ code <= 57 THEN "Drizzle"
  ELSE IF (code >= 61 /\ code <= 67) \/ (code >= 80 /\ code <= 82) THEN "Rainy"
  ELSE IF (code >= 71 /\ code <= 77) \/ (code >= 85 /\ code <= 86) THEN "Snow"
  ELSE "Unknown"

mapWeatherCode(code) ==
  IF code = 0 THEN "Clear"
  ELSE IF code >= 1 /\ code <= 3 THEN "Cloudy"
  ELSE IF code >= 51 /\ code <= 57 THEN "Drizzle"
  ELSE IF (code >= 61 /\ code <= 67) \/ (code >= 80 /\ code <= 82) THEN "Rainy"
  ELSE IF (code >= 71 /\ code <= 77) \/ (code >= 85 /\ code <= 86) THEN "Snow"
  ELSE "Clear"

\* x || d for a number x
OrElse(x, d) == IF x # 0 THEN x ELSE d

\* The weather part of a WeatherData record (latitude and longitude are the
\* caller's own, lastUpdated is not modelled).
Weather(t, h, c) == [temperature |-> t, humidity |-> h, condition |-> c]

createDefaultWeather == Weather(DefaultTemperature, DefaultHumidity, "Clear")

\* fetchFreshWeather on a well-formed provider body `cur` (response.data.current).
fetchFreshWeather(cur) ==
  Weather(RoundTenths(OrElse(cur.temperature_2m, DefaultTemperature * 10)),
          RoundTenths(OrElse(cur.relative_humidity_2m, DefaultHumidity * 10)),
          mapWeatherCode(OrElse(cur.weather_code, 0)))

\* What the provider reports for a rounded coordinate pair.  The provider is an
\* external collaborator: any table will do, this one spreads the readings over
\* frost, mild and hot, and includes a reading of exactly 0.
ProviderReading(key) ==
  LET a == key[1] + key[2]
  IN  [temperature_2m |->
         CASE a % 4 = 0 -> -54 [] a % 4 = 1 -> 305 [] a % 4 = 2 -> 0 [] OTHER -> 184,
       relative_humidity_2m |->
         CASE a % 3 = 0 -> 300 [] a % 3 = 1 -> 806 [] OTHER -> 0,
       weather_code |->
         CASE a % 4 = 0 -> 71 [] a % 4 = 1 -> 0 [] a % 4 = 2 -> 2 [] OTHER -> 199]

\* A getWeatherBatch that gives up on a coordinate whose provider call throws:
\* what the loop would push without the default record of its catch block.
getWeatherBatchAborting(key, providerOk) ==
  IF providerOk THEN << fetchFreshWeather(ProviderReading(key)) >> ELSE << >>

\* getWeatherBatch for a single coordinate: the fresh record, or the default
\* record when the provider call throws (timeout, non-2xx, malformed body).
getWeatherBatch(key, providerOk) ==
  IF providerOk THEN << fetchFreshWeather(ProviderReading(key)) >>
  ELSE << createDefaultWeather >>

\* A filterByWeather that tests its numeric bounds for truthiness: a bound
\* of 0 is ignored.
filterByWeatherTruthy(weatherData, f) ==
  SelectSeq(weatherData, LAMBDA data :
    /\ ~(TruthyNum(f.tempMin) /\ data.temperature < ValueOf(f.tempMin))
    /\ ~(TruthyNum(f.tempMax) /\ data.temperature > ValueOf(f.tempMax))
    /\ ~(TruthyNum(f.humidityMin) /\ data.humidity < ValueOf(f.humidityMin))
    /\ ~(TruthyNum(f.humidityMax) /\ data.humidity > ValueOf(f.humidityMax))
    /\ ~(TruthyStr(f.weatherCondition) /\ data.condition # ValueOf(f.weatherCondition)))

\* filterByWeather: the numeric bounds are tested with !== undefined, the
\* condition for truthiness.
filterByWeather(weatherData, f) ==
  SelectSeq(weatherData, LAMBDA data :
    /\ ~(IsDefined(f.tempMin) /\ data.temperature < ValueOf(f.tempMin))
    /\ ~(IsDefined(f.tempMax) /\ data.temperature > ValueOf(f.tempMax))
    /\ ~(IsDefined(f.humidityMin) /\ data.humidity < ValueOf(f.humidityMin))
    /\ ~(IsDefined(f.humidityMax) /\ data.humidity > ValueOf(f.humidityMax))
    /\ ~(TruthyStr(f.weatherCondition) /\ data.condition # ValueOf(f.weatherCondition)))

-----------------------------------------------------------------------------
(* The store (prisma.property) and the snapshot written by                  *)
(* RedisPropertyService.syncPropertiesToRedis                               *)

\* A row of the property table; lat and lng are nullable.
Row(id, name, city, state, lat, lng, active) ==
  [id |-> id, name |-> name, city |-> city, state |-> state,
   lat |-> lat, lng |-> lng, isActive |-> active]

\* Ordering of the store's orderBy: { name: 'asc' } (case-insensitive collation,
\* ties broken by id).
CharRank(c) ==
  CASE LowerChar(c) = "a" -> 1 [] LowerChar(c) = "b" -> 2
    [] LowerChar(c) = "c" -> 3 [] OTHER -> 4

RECURSIVE TextLess(_, _)
TextLess(s, t) ==
  IF s = << >> THEN t # << >>
  ELSE IF t = << >> THEN FALSE
  ELSE IF CharRank(Head(s)) # CharRank(Head(t)) THEN CharRank(Head(s)) < CharRank(Head(t))
  ELSE TextLess(Tail(s), Tail(t))

RowBefore(a, b) ==
  TextLess(a.name, b.name) \/ (~TextLess(b.name, a.name) /\ a.id < b.id)

RECURSIVE OrderByName(_)
OrderByName(rows) ==
  IF rows = {} THEN << >>
  ELSE LET first == CHOOSE a \in rows : \A b \in rows \ {a} : RowBefore(a, b)
       IN  << first >> \o OrderByName(rows \ {first})

\* prisma.property.findMany({ where: { isActive: true }, orderBy: { name: 'asc' } })
findManyActive(table) == OrderByName({row \in table : row.isActive})

\* x || 0 for a nullable number
OrZero(x) == IF TruthyNum(x) THEN ValueOf(x) ELSE 0

\* The redisData entry of one row.
RedisRecord(row) ==
  [id |-> row.id, name |-> row.name, city |-> row.city, state |-> row.state,
   lat |-> OrZero(row.lat), lng |-> OrZero(row.lng)]

redisData(table) ==
  LET rows == findManyActive(table)
  IN  [i \in 1..Len(rows) |-> RedisRecord(rows[i])]

-----------------------------------------------------------------------------
(* RedisPropertyService.searchProperties: the parts between the awaits      *)

\* The basic filters without toLowerCase: the comparison keeps the case.
PassesBasicCaseSensitive(prop, f) ==
  /\ ~(TruthyText(f.searchText) /\ ~Includes(prop.name, ValueOf(f.searchText)))
  /\ ~(TruthyText(f.city) /\ ~Includes(prop.city, ValueOf(f.city)))
  /\ ~(TruthyText(f.state) /\ ~Includes(prop.state, ValueOf(f.state)))

\* The basic filters (properties.filter, searchText/city/state).
PassesBasic(prop, f) ==
  /\ ~(TruthyText(f.searchText)
        /\ ~Includes(ToLowerCase(prop.name), ToLowerCase(ValueOf(f.searchText))))
  /\ ~(TruthyText(f.city)
        /\ ~Includes(ToLowerCase(prop.city), ToLowerCase(ValueOf(f.city))))
  /\ ~(TruthyText(f.state)
        /\ ~Includes(ToLowerCase(prop.state), ToLowerCase(ValueOf(f.state))))

basicFilter(properties, f) == SelectSeq(properties, LAMBDA p : PassesBasic(p, f))

hasWeatherFilters(f) ==
  \/ IsDefined(f.tempMin) \/ IsDefined(f.tempMax)
  \/ IsDefined(f.humidityMin) \/ IsDefined(f.humidityMax)
  \/ IsDefined(f.weatherCondition)

\* The predicate of applyWeatherFilters' properties.filter.
PassesWeather(prop, f) ==
  /\ ~(IsDefined(f.tempMin) /\ prop.weather.temperature < ValueOf(f.tempMin))
  /\ ~(IsDefined(f.tempMax) /\ prop.weather.temperature > ValueOf(f.tempMax))
  /\ ~(IsDefined(f.humidityMin) /\ prop.weather.humidity < ValueOf(f.humidityMin))
  /\ ~(IsDefined(f.humidityMax) /\ prop.weather.humidity > ValueOf(f.humidityMax))
  /\ ~(TruthyStr(f.weatherCondition)
        /\ prop.weather.condition # ValueOf(f.weatherCondition))

applyWeatherFilters(properties, f) ==
  IF /\ ~TruthyNum(f.tempMin) /\ ~TruthyNum(f.tempMax)
     /\ ~TruthyNum(f.humidityMin) /\ ~TruthyNum(f.humidityMax)
     /\ ~TruthyStr(f.weatherCondition)
  THEN properties
  ELSE SelectSeq(properties, LAMBDA p : PassesWeather(p, f))

\* filters.limit || 20 and filters.offset || 0
limitOf(f) == OrElse(f.limit, DefaultLimit)
offsetOf(f) == OrElse(f.offset, 0)

\* A slice that takes its end from the limit alone: slice(offset, limit).
paginateUpToLimit(properties, f) == Slice(properties, offsetOf(f), limitOf(f))

paginate(properties, f) == Slice(properties, offsetOf(f), offsetOf(f) + limitOf(f))

hasMoreOf(f, total) == offsetOf(f) + limitOf(f) < total

\* The argument of the one attachWeatherData call of a search: everything that
\* passed the basic filters when a weather filter is present, the page otherwise.
attachInput(filteredProperties, f) ==
  IF hasWeatherFilters(f) THEN filteredProperties ELSE paginate(filteredProperties, f)

\* The value searchProperties returns once attachWeatherData has returned `enriched`.
searchResult(filteredProperties, enriched, f) ==
  LET weatherFiltered == IF hasWeatherFilters(f) THEN applyWeatherFilters(enriched, f)
                         ELSE filteredProperties
      final == IF hasWeatherFilters(f) THEN paginate(weatherFiltered, f) ELSE enriched
      total == Len(weatherFiltered)
  IN  [properties |-> final, total |-> total, hasMore |-> hasMoreOf(f, total)]

-----------------------------------------------------------------------------
(* RedisPropertyService.attachWeatherData: the per-property lookups          *)

NoWeather == Weather(0, 0, "")

\* The cache key 'weather:<lat.toFixed(4)>,<lng.toFixed(4)>'.
weatherKey(prop) == << ToFixed4(prop.lat), ToFixed4(prop.lng) >>

\* { ...prop, weather }
WithWeather(prop, w) ==
  [id |-> prop.id, name |-> prop.name, city |-> prop.city, state |-> prop.state,
   lat |-> prop.lat, lng |-> prop.lng, weather |-> w]

\* A map callback without the coordinate test: every lookup, whatever the
\* coordinates of its property, issues its redis.get.
startLookupsForAll(properties) ==
  [i \in 1..Len(properties) |-> [st |-> "get", weather |-> NoWeather]]

\* properties.map(async (prop) => ...) up to each lookup's first await: a
\* property with a falsy lat or lng is settled at once with the default record,
\* every other lookup has issued its redis.get.
startLookups(properties) ==
  [i \in 1..Len(properties) |->
     IF properties[i].lat = 0 \/ properties[i].lng = 0
     THEN [st |-> "resolved", weather |-> createDefaultWeather]
     ELSE [st |-> "get", weather |-> NoWeather]]

\* The record written to the weather cache after a miss.
cacheWriteOf(key, providerOk) == getWeatherBatch(key, providerOk)[1]

\* A lookup that lets a provider failure escape instead of settling with the
\* default record: what the miss path would be without the catch blocks.
missPathRethrows(key, providerOk, setOk) ==
  IF ~providerOk THEN [st |-> "rejected", weather |-> NoWeather]
  ELSE IF setOk THEN [st |-> "resolved", weather |-> getWeatherBatch(key, TRUE)[1]]
  ELSE [st |-> "resolved", weather |-> createDefaultWeather]

\* How a lookup that missed the cache settles: getWeatherBatch never throws and
\* returns one record; a redis.set that throws is caught and the lookup falls
\* through to the default record.
missPath(key, providerOk, setOk) ==
  LET freshWeather == getWeatherBatch(key, providerOk)
  IN  IF Len(freshWeather) > 0 /\ setOk
      THEN [st |-> "resolved", weather |-> freshWeather[1]]
      ELSE [st |-> "resolved", weather |-> createDefaultWeather]

\* The slice weatherPromises.slice(i, i + batchSize), as a set of positions.
batchOf(i, n) == (i + 1)..Min(i + batchSize, n)

\* Whether the loop goes on to another batch after the one at i.
moreBatches(i, n) == i + batchSize < n

\* A push that appends the records of the batch at i last lookup first: what
\* the loop would do if it collected records in an order other than the input's.
pushBatchReversed(res, properties, lookups, i) ==
  LET last == Min(i + batchSize, Len(lookups))
  IN  res \o [k \in 1..(last - i) |->
               WithWeather(properties[last + 1 - k], lookups[last + 1 - k].weather)]

\* results.push(...batchResults) for the batch at i.
pushBatch(res, properties, lookups, i) ==
  res \o [k \in 1..(Min(i + batchSize, Len(lookups)) - i) |->
           WithWeather(properties[i + k], lookups[i + k].weather)]

-----------------------------------------------------------------------------
(* GET /get-properties (use-cases/getProperties.ts)                          *)

\* The query string; a numeric parameter is written as its number.
NoQuery ==
  [searchText |-> Undefined, city |-> Undefined, state |-> Undefined,
   tempMin |-> Undefined, tempMax |-> Undefined,
   humidityMin |-> Undefined, humidityMax |-> Undefined,
   weatherCondition |-> Undefined, limit |-> Undefined, offset |-> Undefined]

\* const filters = { ... }: limit and offset get their defaults here.
buildFilters(q) ==
  [q EXCEPT !.limit = IF IsDefined(q.limit) THEN ValueOf(q.limit) ELSE DefaultLimit,
            !.offset = IF IsDefined(q.offset) THEN ValueOf(q.offset) ELSE 0]

OutOfRange(x, lo, hi) == IsDefined(x) /\ (ValueOf(x) < lo \/ ValueOf(x) > hi)

validWeatherConditions == {"Clear", "Cloudy", "Drizzle", "Rainy", "Snow"}

\* The error of the first failing validation, "" when the filters are accepted.
validationError(f) ==
  IF OutOfRange(f.tempMin, TempLow, TempHigh) THEN "Temperature min"
  ELSE IF OutOfRange(f.tempMax, TempLow, TempHigh) THEN "Temperature max"
  ELSE IF OutOfRange(f.humidityMin, HumidityLow, HumidityHigh) THEN "Humidity min"
  ELSE IF OutOfRange(f.humidityMax, HumidityLow, HumidityHigh) THEN "Humidity max"
  ELSE IF TruthyStr(f.weatherCondition)
          /\ ValueOf(f.weatherCondition) \notin validWeatherConditions
       THEN "Invalid weather condition"
  ELSE ""

\* `keys` holds the names of the top-level fields of the JSON body.
NoResponse ==
  [status |-> 0, keys |-> {}, error |-> "", message |-> "", data |-> << >>, total |-> 0,
   hasMore |-> FALSE, limit |-> 0, offset |-> 0]

badRequest(err) ==
  [NoResponse EXCEPT !.status = 400, !.error = err,
                     !.keys = IF err = "Invalid weather condition"
                              THEN {"error", "validConditions"} ELSE {"error"}]

GenericMessage == "Something went wrong"

\* The catch of getProperties: the message of the error goes out in development.
serverError(env, message) ==
  [NoResponse EXCEPT !.status = 500, !.error = "Internal Server Error",
                     !.keys = {"success", "error", "message", "timestamp"},
                     !.message = IF env = "development" THEN message ELSE GenericMessage]

\* res.json({ success: true, data, pagination: { total, limit, offset, hasMore } })
okResponse(result, f) ==
  [NoResponse EXCEPT
     !.status = 200,
     !.keys = {"success", "data", "pagination", "performance", "filters", "metadata"},
     !.data = result.properties, !.total = result.total, !.hasMore = result.hasMore,
     !.limit = limitOf(f), !.offset = offsetOf(f)]

-----------------------------------------------------------------------------
(* GET /suggestions (index.ts)                                               *)

\* `${p.name} - ${p.city}, ${p.state}`
labelOf(p) == p.name \o << " ", "-", " " >> \o p.city \o << ",", " " >> \o p.state

suggestionOf(p) ==
  [id |-> p.id, label |-> labelOf(p), value |-> p.name, city |-> p.city, state |-> p.state]

\* A map over the whole result of the search, without the slice(0, 10).
formatSuggestionsUncut(properties) ==
  [i \in 1..Len(properties) |-> suggestionOf(properties[i])]

\* suggestions.properties.slice(0, 10).map(...)
formatSuggestions(properties) ==
  LET top == Slice(properties, 0, 10)
  IN  [i \in 1..Len(top) |-> suggestionOf(top[i])]

\* !q || typeof q !== 'string' || q.length < 2
tooShort(q) == ~TruthyText(q) \/ Len(ValueOf(q)) < 2

\* res.json({ success: true, data: [] })
noSuggestions == [NoResponse EXCEPT !.status = 200, !.keys = {"success", "data"}]

\* res.json({ success: true, data: formattedSuggestions, source })
suggestionsResponse(result) ==
  [NoResponse EXCEPT !.status = 200, !.keys = {"success", "data", "source"},
                     !.data = formatSuggestions(result.properties)]

\* res.status(500).json({ success: false, data: [] })
suggestionsError == [NoResponse EXCEPT !.status = 500, !.keys = {"success", "data"}]

\* The response of the route the request came in on ("suggestions" is among
\* the tags of a /suggestions request) once its search has returned `result`.
successResponse(done, result, f) ==
  IF "suggestions" \in done THEN suggestionsResponse(result) ELSE okResponse(result, f)

\* The response of the catch of that route.
errorResponse(done, env, message) ==
  IF "suggestions" \in done THEN suggestionsError ELSE serverError(env, message)

-----------------------------------------------------------------------------
(* The request deduplication middleware (index.ts)                           *)

\* The body handed to res.json: the status of the response is not part of it.
bodyOf(resp) == [resp EXCEPT !.status = 0]

\* The wrapped res.json: requestCache.set(key, { data, timestamp: Date.now() }).
\* `key` is undefined when the handler runs without the middleware.  The sweep
\* of old entries (requestCache.size > 1000) is beyond the sizes explored.
cacheResponse(cache, key, resp) ==
  IF IsDefined(key)
  THEN [k \in DOMAIN cache \cup {ValueOf(key)} |->
          IF k = ValueOf(key) THEN [data |-> bodyOf(resp), fresh |-> TRUE] ELSE cache[k]]
  ELSE cache

\* cached && Date.now() - cached.timestamp < CACHE_DURATION
cacheHit(cache, key) == key \in DOMAIN cache /\ cache[key].fresh

\* res.json(cached.data): no status is set, so the response goes out as 200.
cachedResponse(cache, key) == [cache[key].data EXCEPT !.status = 200]

\* The ids of the records of a response, in order.
idsOf(resp) == [i \in 1..Len(resp.data) |-> resp.data[i].id]

\* History: the answer of the latest completed search per middleware key, and
\* whether that search was served from the caches alone.
recordAnswer(history, key, resp, done) ==
  IF IsDefined(key)
  THEN [k \in DOMAIN history \cup {ValueOf(key)} |->
          IF k = ValueOf(key)
          THEN [ids |-> idsOf(resp), total |-> resp.total,
                warm |-> "snapshotHit" \in done /\ "weatherMiss" \notin done]
          ELSE history[k]]
  ELSE history

-----------------------------------------------------------------------------
(* Fixtures *)

Text1(a) == << a >>
Text2(a, b) == << a, b >>

\* Three active properties, one of them without coordinates, one inactive one.
SmallTable ==
  { Row(1, Text2("B", "a"), Text1("c"), Text1("a"), Some(20), Some(20), TRUE),
    Row(2, Text2("a", "b"), Text1("c"), Text1("b"), Undefined, Undefined, TRUE),
    Row(3, Text1("b"), Text1("a"), Text1("a"), Some(22), Some(30), TRUE),
    Row(4, Text1("a"), Text1("c"), Text1("a"), Some(20), Some(20), FALSE) }

\* n active properties, all with coordinates, no two sharing a cache key.
BigTable(n) ==
  { Row(i, Text1("a"), Text1("c"), Text1("a"), Some(10 * i), Some(10), TRUE) : i \in 1..n }

\* n active properties; those at positions 1, 5, 6, 10, 11, ... have coordinates.
MixedTable(n) ==
  { Row(i, Text1("a"), Text1("c"), Text1("a"),
        IF i % 5 \in {0, 1} THEN Some(10 * i) ELSE Undefined,
        IF i % 5 \in {0, 1} THEN Some(10) ELSE Undefined, TRUE) : i \in 1..n }

-----------------------------------------------------------------------------
(* State *)

EmptyCache == [k \in {} |-> NoWeather]

\* new Map(): no request has been answered through the middleware yet.
EmptyRequestCache == [k \in {} |-> [data |-> NoResponse, fresh |-> FALSE]]

\* No /admin request is in flight and none has been answered.
NoAdmin == [pc |-> "idle", op |-> "none", data |-> << >>, status |-> 0, message |-> ""]

NoPrev == [k \in {} |-> [ids |-> << >>, total |-> 0, warm |-> FALSE]]

\* No call of getWeatherBatch on a list is under way.
NoBatchCall == [coords |-> << >>, failed |-> {}, results |-> << >>]

\* No function has been called.
NoCall == [fn |-> "none", arg |-> << >>, result |-> << >>]

InitSlots ==
  /\ pc = [r \in Reqs |-> "idle"]
  /\ filters = [r \in Reqs |-> buildFilters(NoQuery)]
  /\ filtered = [r \in Reqs |-> << >>]
  /\ syncData = [r \in Reqs |-> << >>]
  /\ input = [r \in Reqs |-> << >>]
  /\ tasks = [r \in Reqs |-> << >>]
  /\ batchI = [r \in Reqs |-> 0]
  /\ results = [r \in Reqs |-> << >>]
  /\ response = [r \in Reqs |-> NoResponse]
  /\ errs = [r \in Reqs |-> {}]
  /\ ops = [r \in Reqs |-> {}]
  /\ cacheKey = [r \in Reqs |-> Undefined]
  /\ requestCache = EmptyRequestCache
  /\ admin = NoAdmin
  /\ prev = NoPrev
  /\ wb = NoBatchCall

\* No request is in flight and no function has been called; the service runs
\* in production.
InitRequests ==
  /\ InitSlots
  /\ call = NoCall
  /\ nodeEnv = "production"

\* After construction: the cache is cold and the constructor's
\* initializeService() has issued the store query of its sync.
Init ==
  /\ db = SmallTable
  /\ propsCache = Undefined
  /\ weatherCache = EmptyCache
  /\ bootPc = "dbQuery"
  /\ bootData = << >>
  /\ InitRequests

shared == << db, propsCache, weatherCache, bootPc, bootData >>
lookupVars == << input, tasks, batchI, results >>
\* What a step of a search that sends no response leaves alone besides `ops`.
aside == << requestCache, cacheKey, admin, prev, wb, call, nodeEnv >>

-----------------------------------------------------------------------------
(* The constructor's sync: initializeService -> syncPropertiesToRedis        *)

\* prisma.property.findMany returns (ok) or throws; a throw is caught and logged.
BootQueryStore(ok) ==
  /\ bootPc = "dbQuery"
  /\ IF ok THEN bootPc' = "setProps" /\ bootData' = redisData(db)
     ELSE bootPc' = "idle" /\ bootData' = << >>
  /\ UNCHANGED << db, propsCache, weatherCache, pc, filters, filtered, syncData,
                  input, tasks, batchI, results, response, errs, ops, aside >>

\* redis.set(PROPERTIES_KEY, ...) returns (ok) or throws; a throw is caught.
BootWriteSnapshot(ok) ==
  /\ bootPc = "setProps"
  /\ bootPc' = "idle"
  /\ bootData' = << >>
  /\ propsCache' = IF ok THEN Some(bootData) ELSE propsCache
  /\ UNCHANGED << db, weatherCache, pc, filters, filtered, syncData,
                  input, tasks, batchI, results, response, errs, ops, aside >>

-----------------------------------------------------------------------------
(* The cache's own clock *)

\* The one-hour TTL of 'properties:all' runs out.
ExpireSnapshot ==
  /\ IsDefined(propsCache)
  /\ propsCache' = Undefined
  /\ UNCHANGED << db, weatherCache, bootPc, bootData, pc, filters, filtered, syncData,
                  input, tasks, batchI, results, response, errs, ops, aside >>

\* The thirty-minute TTL of one weather entry runs out.
ExpireWeather(key) ==
  /\ key \in DOMAIN weatherCache
  /\ weatherCache' = [k \in DOMAIN weatherCache \ {key} |-> weatherCache[k]]
  /\ UNCHANGED << db, propsCache, bootPc, bootData, pc, filters, filtered, syncData,
                  input, tasks, batchI, results, response, errs, ops, aside >>

-----------------------------------------------------------------------------
(* GET /get-properties: getProperties -> searchProperties                    *)

\* The catch of searchProperties rethrows, the catch of getProperties answers 500.
Fail(r, what) ==
  /\ pc' = [pc EXCEPT ![r] = "done"]
  /\ response' = [response EXCEPT ![r] = errorResponse(ops[r], nodeEnv, what)]
  /\ errs' = [errs EXCEPT ![r] = @ \cup {what}]
  /\ requestCache' = cacheResponse(requestCache, cacheKey[r], response'[r])

\* searchProperties from the basic filters to the call of attachWeatherData.
AfterLoad(r, properties) ==
  LET f == filters[r]
      fp == basicFilter(properties, f)
      arg == attachInput(fp, f)
  IN  /\ filtered' = [filtered EXCEPT ![r] = fp]
      /\ input' = [input EXCEPT ![r] = arg]
      /\ tasks' = [tasks EXCEPT ![r] = startLookups(arg)]
      /\ batchI' = [batchI EXCEPT ![r] = 0]
      /\ results' = [results EXCEPT ![r] = << >>]
      /\ pc' = [pc EXCEPT ![r] = "enrich"]
      /\ UNCHANGED << response, errs, requestCache >>

\* A handler that validates after its first redis.get(PROPERTIES_KEY): the
\* rejected request has read the cache by the time it is answered 400.
ArriveReadingFirst(r, q) ==
  LET f == buildFilters(q)
      err == validationError(f)
      read == IF IsDefined(propsCache) THEN "snapshotHit" ELSE "snapshotMiss"
  IN  /\ pc[r] = "idle"
      /\ filters' = [filters EXCEPT ![r] = f]
      /\ filtered' = [filtered EXCEPT ![r] = << >>]
      /\ syncData' = [syncData EXCEPT ![r] = << >>]
      /\ input' = [input EXCEPT ![r] = << >>]
      /\ tasks' = [tasks EXCEPT ![r] = << >>]
      /\ batchI' = [batchI EXCEPT ![r] = 0]
      /\ results' = [results EXCEPT ![r] = << >>]
      /\ errs' = [errs EXCEPT ![r] = {}]
      /\ ops' = [ops EXCEPT ![r] = IF err # "" THEN {read} ELSE {}]
      /\ cacheKey' = [cacheKey EXCEPT ![r] = Undefined]
      /\ IF err # ""
         THEN /\ pc' = [pc EXCEPT ![r] = "done"]
              /\ response' = [response EXCEPT ![r] = badRequest(err)]
         ELSE /\ pc' = [pc EXCEPT ![r] = "getProps"]
              /\ response' = [response EXCEPT ![r] = NoResponse]
      /\ UNCHANGED << shared, requestCache, admin, prev, wb, call, nodeEnv >>

\* The request arrives: the filters are built and validated; a rejected request
\* is answered 400, an accepted one has issued redis.get(PROPERTIES_KEY).
Arrive(r, q) ==
  LET f == buildFilters(q)
      err == validationError(f)
  IN  /\ pc[r] = "idle"
      /\ filters' = [filters EXCEPT ![r] = f]
      /\ filtered' = [filtered EXCEPT ![r] = << >>]
      /\ syncData' = [syncData EXCEPT ![r] = << >>]
      /\ input' = [input EXCEPT ![r] = << >>]
      /\ tasks' = [tasks EXCEPT ![r] = << >>]
      /\ batchI' = [batchI EXCEPT ![r] = 0]
      /\ results' = [results EXCEPT ![r] = << >>]
      /\ errs' = [errs EXCEPT ![r] = {}]
      /\ ops' = [ops EXCEPT ![r] = {}]
      /\ cacheKey' = [cacheKey EXCEPT ![r] = Undefined]
      /\ IF err # ""
         THEN /\ pc' = [pc EXCEPT ![r] = "done"]
              /\ response' = [response EXCEPT ![r] = badRequest(err)]
         ELSE /\ pc' = [pc EXCEPT ![r] = "getProps"]
              /\ response' = [response EXCEPT ![r] = NoResponse]
      /\ UNCHANGED << shared, requestCache, admin, prev, wb, call, nodeEnv >>

\* The response has been sent and the request's own state is dropped; the slot
\* can take the next request.
Forget(r) ==
  /\ pc[r] = "done"
  /\ pc' = [pc EXCEPT ![r] = "idle"]
  /\ filters' = [filters EXCEPT ![r] = buildFilters(NoQuery)]
  /\ filtered' = [filtered EXCEPT ![r] = << >>]
  /\ syncData' = [syncData EXCEPT ![r] = << >>]
  /\ input' = [input EXCEPT ![r] = << >>]
  /\ tasks' = [tasks EXCEPT ![r] = << >>]
  /\ batchI' = [batchI EXCEPT ![r] = 0]
  /\ results' = [results EXCEPT ![r] = << >>]
  /\ response' = [response EXCEPT ![r] = NoResponse]
  /\ errs' = [errs EXCEPT ![r] = {}]
  /\ ops' = [ops EXCEPT ![r] = {}]
  /\ cacheKey' = [cacheKey EXCEPT ![r] = Undefined]
  /\ UNCHANGED << shared, requestCache, admin, prev, wb, call, nodeEnv >>

\* GET /suggestions arrives: a missing or short q is answered with the empty
\* list; otherwise searchProperties({ searchText: q }) has issued its
\* redis.get(PROPERTIES_KEY).
Suggest(r, q) ==
  /\ pc[r] = "idle"
  /\ filters' = [filters EXCEPT ![r] = [buildFilters(NoQuery) EXCEPT !.searchText = q]]
  /\ filtered' = [filtered EXCEPT ![r] = << >>]
  /\ syncData' = [syncData EXCEPT ![r] = << >>]
  /\ input' = [input EXCEPT ![r] = << >>]
  /\ tasks' = [tasks EXCEPT ![r] = << >>]
  /\ batchI' = [batchI EXCEPT ![r] = 0]
  /\ results' = [results EXCEPT ![r] = << >>]
  /\ errs' = [errs EXCEPT ![r] = {}]
  /\ ops' = [ops EXCEPT ![r] = {"suggestions"}]
  /\ cacheKey' = [cacheKey EXCEPT ![r] = Undefined]
  /\ IF tooShort(q)
     THEN /\ pc' = [pc EXCEPT ![r] = "done"]
          /\ response' = [response EXCEPT ![r] = noSuggestions]
     ELSE /\ pc' = [pc EXCEPT ![r] = "getProps"]
          /\ response' = [response EXCEPT ![r] = NoResponse]
  /\ UNCHANGED << shared, requestCache, admin, prev, wb, call, nodeEnv >>

\* A first redis.get whose result is not looked at: the search calls
\* syncPropertiesToRedis whether or not the snapshot is in the cache.
LoadSnapshotAlwaysSyncing(r, ok) ==
  /\ pc[r] = "getProps"
  /\ IF ~ok
     THEN /\ Fail(r, "cacheRead")
          /\ UNCHANGED << filtered, input, tasks, batchI, results, ops >>
     ELSE /\ pc' = [pc EXCEPT ![r] = "dbQuery"]
          /\ ops' = [ops EXCEPT ![r] = @ \cup {IF IsDefined(propsCache) THEN "snapshotHit"
                                               ELSE "snapshotMiss"}]
          /\ UNCHANGED << filtered, input, tasks, batchI, results, response, errs,
                          requestCache >>
  /\ UNCHANGED << shared, filters, syncData, cacheKey, admin, prev, wb, call, nodeEnv >>

\* redis.get(PROPERTIES_KEY) returns (ok) or throws.  A hit goes on to the
\* filters; a miss calls syncPropertiesToRedis, which issues the store query.
LoadSnapshot(r, ok) ==
  /\ pc[r] = "getProps"
  /\ IF ~ok
     THEN /\ Fail(r, "cacheRead")
          /\ UNCHANGED << filtered, input, tasks, batchI, results, ops >>
     ELSE IF IsDefined(propsCache)
     THEN /\ AfterLoad(r, ValueOf(propsCache))
          /\ ops' = [ops EXCEPT ![r] = @ \cup {"snapshotHit"}]
     ELSE /\ pc' = [pc EXCEPT ![r] = "dbQuery"]
          /\ ops' = [ops EXCEPT ![r] = @ \cup {"snapshotMiss"}]
          /\ UNCHANGED << filtered, input, tasks, batchI, results, response, errs,
                          requestCache >>
  /\ UNCHANGED << shared, filters, syncData, cacheKey, admin, prev, wb, call, nodeEnv >>

\* syncPropertiesToRedis: findMany returns (ok) and redis.set is issued, or it
\* throws and the catch of syncPropertiesToRedis logs it; the search then issues
\* its second redis.get.
SyncQueryStore(r, ok) ==
  /\ pc[r] = "dbQuery"
  /\ IF ok
     THEN /\ pc' = [pc EXCEPT ![r] = "setProps"]
          /\ syncData' = [syncData EXCEPT ![r] = redisData(db)]
          /\ UNCHANGED errs
     ELSE /\ pc' = [pc EXCEPT ![r] = "reget"]
          /\ errs' = [errs EXCEPT ![r] = @ \cup {"store"}]
          /\ UNCHANGED syncData
  /\ ops' = [ops EXCEPT ![r] = @ \cup {"storeQuery"}]
  /\ UNCHANGED << shared, filters, filtered, lookupVars, response, aside >>

\* syncPropertiesToRedis: redis.set returns (ok) or throws into the same catch.
SyncWriteSnapshot(r, ok) ==
  /\ pc[r] = "setProps"
  /\ pc' = [pc EXCEPT ![r] = "reget"]
  /\ syncData' = [syncData EXCEPT ![r] = << >>]
  /\ propsCache' = IF ok THEN Some(syncData[r]) ELSE propsCache
  /\ errs' = [errs EXCEPT ![r] = IF ok THEN @ ELSE @ \cup {"cacheWrite"}]
  /\ UNCHANGED << db, weatherCache, bootPc, bootData, filters, filtered, lookupVars,
                  response, ops, aside >>

\* The second redis.get(PROPERTIES_KEY): freshCache ? JSON.parse(freshCache) : [].
ReloadSnapshot(r, ok) ==
  /\ pc[r] = "reget"
  /\ IF ~ok
     THEN Fail(r, "cacheRead") /\ UNCHANGED << filtered, input, tasks, batchI, results >>
     ELSE AfterLoad(r, IF IsDefined(propsCache) THEN ValueOf(propsCache) ELSE << >>)
  /\ UNCHANGED << shared, filters, syncData, ops, cacheKey, admin, prev, wb, call, nodeEnv >>

\* One lookup's redis.get(weatherKey) returns (ok) or throws.  A hit settles the
\* lookup with the cached record; a miss issues the provider call.
WeatherCacheGet(r, i, ok) ==
  /\ pc[r] \in {"enrich", "delay"}
  /\ i \in 1..Len(tasks[r])
  /\ tasks[r][i].st = "get"
  /\ LET key == weatherKey(input[r][i])
     IN  IF ~ok
         THEN /\ tasks' = [tasks EXCEPT ![r][i].st = "rejected"]
              /\ errs' = [errs EXCEPT ![r] = @ \cup {"cacheRead"}]
              /\ UNCHANGED ops
         ELSE IF key \in DOMAIN weatherCache
         THEN /\ tasks' = [tasks EXCEPT ![r][i] =
                              [st |-> "resolved", weather |-> weatherCache[key]]]
              /\ ops' = [ops EXCEPT ![r] = @ \cup {"weatherHit"}]
              /\ UNCHANGED errs
         ELSE /\ tasks' = [tasks EXCEPT ![r][i].st = "fetch"]
              /\ ops' = [ops EXCEPT ![r] = @ \cup {"weatherMiss"}]
              /\ UNCHANGED errs
  /\ UNCHANGED << shared, pc, filters, filtered, syncData, input, batchI, results,
                  response, aside >>

\* A provider call without the timeout: it ends only when the provider answers.
ProviderRespondNoTimeout(r, i, providerOk, setOk) ==
  /\ providerOk
  /\ pc[r] \in {"enrich", "delay"}
  /\ i \in 1..Len(tasks[r])
  /\ tasks[r][i].st = "fetch"
  /\ LET key == weatherKey(input[r][i])
     IN  /\ tasks' = [tasks EXCEPT ![r][i] = missPath(key, providerOk, setOk)]
         /\ weatherCache' =
              IF setOk
              THEN [k \in DOMAIN weatherCache \cup {key} |->
                      IF k = key THEN cacheWriteOf(key, providerOk) ELSE weatherCache[k]]
              ELSE weatherCache
  /\ errs' = [errs EXCEPT ![r] = @ \cup (IF providerOk THEN {} ELSE {"provider"})
                                    \cup (IF setOk THEN {} ELSE {"cacheWrite"})]
  /\ UNCHANGED << db, propsCache, bootPc, bootData, pc, filters, filtered, syncData,
                  input, batchI, results, response, ops, aside >>

\* One lookup's provider call ends (providerOk: a well-formed answer; otherwise a
\* timeout, an error or a malformed body), getWeatherBatch returns, and the
\* redis.set of its record returns (setOk) or throws.  The cache write is part
\* of this step: the lookup runs nothing else between the two.
ProviderRespond(r, i, providerOk, setOk) ==
  /\ pc[r] \in {"enrich", "delay"}
  /\ i \in 1..Len(tasks[r])
  /\ tasks[r][i].st = "fetch"
  /\ LET key == weatherKey(input[r][i])
     IN  /\ tasks' = [tasks EXCEPT ![r][i] = missPath(key, providerOk, setOk)]
         /\ weatherCache' =
              IF setOk
              THEN [k \in DOMAIN weatherCache \cup {key} |->
                      IF k = key THEN cacheWriteOf(key, providerOk) ELSE weatherCache[k]]
              ELSE weatherCache
  /\ errs' = [errs EXCEPT ![r] = @ \cup (IF providerOk THEN {} ELSE {"provider"})
                                    \cup (IF setOk THEN {} ELSE {"cacheWrite"})]
  /\ UNCHANGED << db, propsCache, bootPc, bootData, pc, filters, filtered, syncData,
                  input, batchI, results, response, ops, aside >>

\* await Promise.all(batch) ends: with a rejection as soon as one lookup of the
\* batch is rejected, with the batch's records once all are resolved.  After the
\* last batch attachWeatherData returns and searchProperties and getProperties
\* run to the response; otherwise the pacing delay starts.
BatchStep(r) ==
  LET i == batchI[r]
      n == Len(tasks[r])
      batch == batchOf(i, n)
  IN  /\ pc[r] = "enrich"
      /\ IF \E k \in batch : tasks[r][k].st = "rejected"
         THEN /\ pc' = [pc EXCEPT ![r] = "done"]
              /\ response' = [response EXCEPT ![r] =
                                 errorResponse(ops[r], nodeEnv, "cacheRead")]
              /\ requestCache' = cacheResponse(requestCache, cacheKey[r], response'[r])
              /\ UNCHANGED << results, prev >>
         ELSE /\ \A k \in batch : tasks[r][k].st = "resolved"
              /\ results' = [results EXCEPT ![r] = pushBatch(@, input[r], tasks[r], i)]
              /\ IF moreBatches(i, n)
                 THEN /\ pc' = [pc EXCEPT ![r] = "delay"]
                      /\ UNCHANGED << response, requestCache, prev >>
                 ELSE /\ pc' = [pc EXCEPT ![r] = "done"]
                      /\ response' = [response EXCEPT ![r] =
                           successResponse(ops[r],
                             searchResult(filtered[r], results'[r], filters[r]),
                             filters[r])]
                      /\ requestCache' =
                           cacheResponse(requestCache, cacheKey[r], response'[r])
                      /\ prev' = recordAnswer(prev, cacheKey[r], response'[r], ops[r])
      /\ UNCHANGED << shared, filters, filtered, syncData, input, tasks, batchI, errs,
                      ops, cacheKey, admin, wb, call, nodeEnv >>

\* The 100 ms pacing delay is over: the loop awaits the next batch.
DelayElapsed(r) ==
  /\ pc[r] = "delay"
  /\ pc' = [pc EXCEPT ![r] = "enrich"]
  /\ batchI' = [batchI EXCEPT ![r] = @ + batchSize]
  /\ UNCHANGED << shared, filters, filtered, syncData, input, tasks, results, response,
                  errs, ops, aside >>

-----------------------------------------------------------------------------
(* The Express application (index.ts): deduplicateRequests in front of       *)
(* GET /get-properties, and the /admin routes, which the middleware skips    *)

\* A GET /get-properties request with query q enters deduplicateRequests.  A
\* fresh entry under its key is sent back at once with res.json; otherwise
\* res.json is wrapped and getProperties runs as in Arrive.
Request(r, q) ==
  LET f == buildFilters(q)
      err == validationError(f)
  IN  /\ pc[r] = "idle"
      /\ cacheKey' = [cacheKey EXCEPT ![r] = Some(q)]
      /\ filtered' = [filtered EXCEPT ![r] = << >>]
      /\ syncData' = [syncData EXCEPT ![r] = << >>]
      /\ input' = [input EXCEPT ![r] = << >>]
      /\ tasks' = [tasks EXCEPT ![r] = << >>]
      /\ batchI' = [batchI EXCEPT ![r] = 0]
      /\ results' = [results EXCEPT ![r] = << >>]
      /\ errs' = [errs EXCEPT ![r] = {}]
      /\ IF cacheHit(requestCache, q)
         THEN /\ pc' = [pc EXCEPT ![r] = "done"]
              /\ response' = [response EXCEPT ![r] = cachedResponse(requestCache, q)]
              /\ ops' = [ops EXCEPT ![r] = {"requestHit"}]
              /\ UNCHANGED << filters, requestCache >>
         ELSE /\ filters' = [filters EXCEPT ![r] = f]
              /\ ops' = [ops EXCEPT ![r] = {}]
              /\ IF err # ""
                 THEN /\ pc' = [pc EXCEPT ![r] = "done"]
                      /\ response' = [response EXCEPT ![r] = badRequest(err)]
                      /\ requestCache' = cacheResponse(requestCache, Some(q), badRequest(err))
                 ELSE /\ pc' = [pc EXCEPT ![r] = "getProps"]
                      /\ response' = [response EXCEPT ![r] = NoResponse]
                      /\ UNCHANGED requestCache
      /\ UNCHANGED << shared, admin, prev, wb, call, nodeEnv >>

\* CACHE_DURATION has passed since the entry under `key` was written: the entry
\* stays in the Map and is no longer served.
ExpireRequest(key) ==
  /\ key \in DOMAIN requestCache
  /\ requestCache[key].fresh
  /\ requestCache' = [requestCache EXCEPT ![key].fresh = FALSE]
  /\ UNCHANGED << shared, pc, filters, filtered, syncData, lookupVars, response, errs,
                  ops, cacheKey, admin, prev, wb, call, nodeEnv >>

\* What the /admin actions leave alone.
searchVars == << pc, filters, filtered, syncData, lookupVars, response, errs, ops,
                 cacheKey, prev, wb, call, nodeEnv >>

\* POST /admin/sync-all arrives: syncPropertiesToRedis issues its store query.
AdminSyncAll ==
  /\ admin.pc = "idle"
  /\ admin' = [NoAdmin EXCEPT !.pc = "syncQuery", !.op = "sync"]
  /\ UNCHANGED << shared, requestCache, searchVars >>

\* findMany returns (ok) and redis.set is issued; or it throws, the catch of
\* syncPropertiesToRedis logs it, the call returns and the handler answers
\* { success: true }.
AdminSyncQuery(ok) ==
  /\ admin.pc = "syncQuery"
  /\ admin' = IF ok THEN [admin EXCEPT !.pc = "syncSet", !.data = redisData(db)]
              ELSE [admin EXCEPT !.pc = "done", !.status = 200]
  /\ UNCHANGED << shared, requestCache, searchVars >>

\* redis.set returns (ok) or throws into the same catch; the handler answers
\* { success: true } either way.
AdminSyncWrite(ok) ==
  /\ admin.pc = "syncSet"
  /\ propsCache' = IF ok THEN Some(admin.data) ELSE propsCache
  /\ admin' = [admin EXCEPT !.pc = "done", !.status = 200]
  /\ UNCHANGED << db, weatherCache, bootPc, bootData, requestCache, searchVars >>

\* DELETE /admin/clear-cache arrives: cacheService.flushAll issues redis.flushall.
AdminClearCache ==
  /\ admin.pc = "idle"
  /\ admin' = [NoAdmin EXCEPT !.pc = "flush", !.op = "clear"]
  /\ UNCHANGED << shared, requestCache, searchVars >>

\* redis.flushall returns (ok) or throws; flushAll catches and returns false,
\* which the handler does not look at: requestCache.clear(), { success: true }.
AdminFlush(ok) ==
  /\ admin.pc = "flush"
  /\ propsCache' = IF ok THEN Undefined ELSE propsCache
  /\ weatherCache' = IF ok THEN EmptyCache ELSE weatherCache
  /\ requestCache' = EmptyRequestCache
  /\ admin' = [admin EXCEPT !.pc = "done", !.status = 200]
  /\ UNCHANGED << db, bootPc, bootData, searchVars >>

\* GET /metrics arrives: the four store queries and getServiceStats are issued
\* under one Promise.all.
MetricsArrive ==
  /\ admin.pc = "idle"
  /\ admin' = [NoAdmin EXCEPT !.pc = "metrics", !.op = "metrics"]
  /\ UNCHANGED << shared, requestCache, searchVars >>

\* Promise.all resolves and the figures are sent, or a store query rejects and
\* the catch sends 500 with the message of the error, whatever NODE_ENV is.
MetricsAnswer(ok) ==
  /\ admin.pc = "metrics"
  /\ admin' = IF ok THEN [admin EXCEPT !.pc = "done", !.status = 200]
              ELSE [admin EXCEPT !.pc = "done", !.status = 500, !.message = "store"]
  /\ UNCHANGED << shared, requestCache, searchVars >>

\* The /admin response has been sent; the next /admin request can arrive.
AdminForget ==
  /\ admin.pc = "done"
  /\ admin' = NoAdmin
  /\ UNCHANGED << shared, requestCache, searchVars >>

\* Another client of the store switches the isActive flag of one property.
StoreSetActive(id, active) ==
  /\ \E row \in db : row.id = id /\ row.isActive # active
  /\ db' = { IF row.id = id THEN [row EXCEPT !.isActive = active] ELSE row : row \in db }
  /\ UNCHANGED << propsCache, weatherCache, bootPc, bootData, requestCache, admin,
                  searchVars >>

-----------------------------------------------------------------------------
(* WeatherService.getWeatherBatch on a list of coordinates                    *)

\* One turn of the loop: the provider call for the next coordinate ends (ok) or
\* throws, and the fresh or the default record is pushed.
BatchFetchNext(ok) ==
  LET i == Len(wb.results) + 1
  IN  /\ i <= Len(wb.coords)
      /\ wb' = [wb EXCEPT !.results = @ \o getWeatherBatch(wb.coords[i], ok),
                          !.failed = IF ok THEN @ ELSE @ \cup {i}]
      /\ UNCHANGED << shared, pc, filters, filtered, syncData, lookupVars, response,
                      errs, ops, requestCache, cacheKey, admin, prev, call, nodeEnv >>

-----------------------------------------------------------------------------
(* Spec: one request at a time over the small table, every collaborator may  *)
(* fail at every call, cache entries may expire.                             *)

WeatherQueries ==
  { [NoQuery EXCEPT !.tempMin = a, !.tempMax = b, !.weatherCondition = c] :
      a \in {Undefined, Some(0), Some(20), Some(-25)},
      b \in {Undefined, Some(0)},
      c \in {Undefined, Some("Snow"), Some("Foggy")} }

HumidityQueries ==
  { [NoQuery EXCEPT !.humidityMin = a, !.humidityMax = b] :
      a \in {Undefined, Some(70)}, b \in {Undefined, Some(0), Some(70), Some(150)} }

PageQueries ==
  { [NoQuery EXCEPT !.limit = l, !.offset = o, !.tempMin = a] :
      l \in {Undefined, Some(0), Some(1), Some(-1)},
      o \in {Undefined, Some(1), Some(3), Some(-1)},
      a \in {Undefined, Some(20)} }

TextQueries ==
  { [NoQuery EXCEPT !.searchText = t, !.city = c, !.state = st] :
      t \in {Undefined, Some(Text1("B"))},
      c \in {Undefined, Some(Text1("C"))},
      st \in {Undefined, Some(Text1("a"))} }

Queries == WeatherQueries \cup HumidityQueries \cup PageQueries \cup TextQueries

Next ==
  \/ \E ok \in BOOLEAN : BootQueryStore(ok)
  \/ \E ok \in BOOLEAN : BootWriteSnapshot(ok)
  \/ ExpireSnapshot
  \/ \E key \in DOMAIN weatherCache : ExpireWeather(key)
  \/ \E q \in Queries : Arrive(1, q)
  \/ \E ok \in BOOLEAN : LoadSnapshot(1, ok)
  \/ \E ok \in BOOLEAN : SyncQueryStore(1, ok)
  \/ \E ok \in BOOLEAN : SyncWriteSnapshot(1, ok)
  \/ \E ok \in BOOLEAN : ReloadSnapshot(1, ok)
  \/ \E i \in 1..Len(tasks[1]), ok \in BOOLEAN : WeatherCacheGet(1, i, ok)
  \/ \E i \in 1..Len(tasks[1]), ok \in BOOLEAN, setOk \in BOOLEAN :
        ProviderRespond(1, i, ok, setOk)
  \/ BatchStep(1)
  \/ Forget(1)

Spec == Init /\ [][Next]_vars

-----------------------------------------------------------------------------
(* SpecConc: several requests in flight together over a cold cache; the      *)
(* constructor's sync is still in flight at the start.                       *)

ConcTable ==
  { Row(1, Text1("a"), Text1("c"), Text1("a"), Some(20), Some(20), TRUE),
    Row(2, Text1("b"), Text1("c"), Text1("a"), Undefined, Undefined, TRUE) }

ConcQueries == { NoQuery }

InitConc ==
  /\ db = ConcTable
  /\ propsCache = Undefined
  /\ weatherCache = EmptyCache
  /\ bootPc = "dbQuery"
  /\ bootData = << >>
  /\ InitRequests

NextConc ==
  \/ \E ok \in BOOLEAN : BootQueryStore(ok)
  \/ \E ok \in BOOLEAN : BootWriteSnapshot(ok)
  \/ ExpireSnapshot
  \/ \E r \in Reqs, q \in ConcQueries : Arrive(r, q)
  \/ \E r \in Reqs, ok \in BOOLEAN : LoadSnapshot(r, ok)
  \/ \E r \in Reqs, ok \in BOOLEAN : SyncQueryStore(r, ok)
  \/ \E r \in Reqs, ok \in BOOLEAN : SyncWriteSnapshot(r, ok)
  \/ \E r \in Reqs, ok \in BOOLEAN : ReloadSnapshot(r, ok)
  \/ \E r \in Reqs : \E i \in 1..Len(tasks[r]), ok \in BOOLEAN : WeatherCacheGet(r, i, ok)
  \/ \E r \in Reqs : \E i \in 1..Len(tasks[r]), ok \in BOOLEAN, setOk \in BOOLEAN :
        ProviderRespond(r, i, ok, setOk)
  \/ \E r \in Reqs : BatchStep(r)
  \/ \E r \in Reqs : Forget(r)

SpecConc == InitConc /\ [][NextConc]_vars

-----------------------------------------------------------------------------
(* SpecBatch: one search over a warm snapshot of MaxBatchProps properties,   *)
(* all with coordinates and none of them cached; cache and provider answer.  *)

InitBatch ==
  /\ db = BigTable(MaxBatchProps)
  /\ propsCache = Some(redisData(db))
  /\ weatherCache = EmptyCache
  /\ bootPc = "idle"
  /\ bootData = << >>
  /\ InitRequests

NextBatch ==
  \/ Arrive(1, NoQuery)
  \/ LoadSnapshot(1, TRUE)
  \/ \E i \in 1..Len(tasks[1]) : WeatherCacheGet(1, i, TRUE)
  \/ \E i \in 1..Len(tasks[1]) : ProviderRespond(1, i, TRUE, TRUE)
  \/ BatchStep(1)
  \/ DelayElapsed(1)

SpecBatch == InitBatch /\ [][NextBatch]_vars

-----------------------------------------------------------------------------
(* SpecOrder: searches over a warm snapshot of 3, batchSize or MaxOrderProps *)
(* properties of which every fifth and the one after it have coordinates;    *)
(* the provider and the cache writes may fail, weather entries may expire.   *)

OrderSizes == { 3, batchSize, MaxOrderProps }

OrderQueries == { NoQuery, [NoQuery EXCEPT !.humidityMin = Some(30)] }

InitOrder ==
  /\ \E n \in OrderSizes : db = MixedTable(n)
  /\ propsCache = Some(redisData(db))
  /\ weatherCache = EmptyCache
  /\ bootPc = "idle"
  /\ bootData = << >>
  /\ InitRequests

NextOrder ==
  \/ \E q \in OrderQueries : Arrive(1, q)
  \/ LoadSnapshot(1, TRUE)
  \/ \E i \in 1..Len(tasks[1]) : WeatherCacheGet(1, i, TRUE)
  \/ \E i \in 1..Len(tasks[1]), ok \in BOOLEAN, setOk \in BOOLEAN :
        ProviderRespond(1, i, ok, setOk)
  \/ BatchStep(1)
  \/ DelayElapsed(1)
  \/ Forget(1)

SpecOrder == InitOrder /\ [][NextOrder]_vars

-----------------------------------------------------------------------------
(* SpecHttp: requests through the middleware, one at a time, over a warm     *)
(* snapshot; the entries of the middleware expire.                           *)

HttpQueries ==
  { [NoQuery EXCEPT !.tempMin = Some(-25)],
    [NoQuery EXCEPT !.humidityMax = Some(150)],
    [NoQuery EXCEPT !.weatherCondition = Some("Foggy")],
    [NoQuery EXCEPT !.tempMin = Some(20)] }

InitHttp ==
  /\ db = ConcTable
  /\ propsCache = Some(redisData(db))
  /\ weatherCache = EmptyCache
  /\ bootPc = "idle"
  /\ bootData = << >>
  /\ InitRequests

NextHttp ==
  \/ \E key \in DOMAIN requestCache : ExpireRequest(key)
  \/ \E q \in HttpQueries : Request(1, q)
  \/ LoadSnapshot(1, TRUE)
  \/ \E i \in 1..Len(tasks[1]) : WeatherCacheGet(1, i, TRUE)
  \/ \E i \in 1..Len(tasks[1]) : ProviderRespond(1, i, TRUE, TRUE)
  \/ BatchStep(1)
  \/ Forget(1)

SpecHttp == InitHttp /\ [][NextHttp]_vars

-----------------------------------------------------------------------------
(* SpecAdmin: the /admin routes next to one search at a time; the store      *)
(* changes, the snapshot and the middleware entries expire, Redis and the    *)
(* store may fail under the /admin calls.                                    *)

InitAdmin ==
  /\ db = ConcTable
  /\ propsCache = Undefined
  /\ weatherCache = EmptyCache
  /\ bootPc = "dbQuery"
  /\ bootData = << >>
  /\ InitRequests

NextAdmin ==
  \/ BootQueryStore(TRUE)
  \/ BootWriteSnapshot(TRUE)
  \/ ExpireSnapshot
  \/ \E key \in DOMAIN requestCache : ExpireRequest(key)
  \/ Request(1, NoQuery)
  \/ LoadSnapshot(1, TRUE)
  \/ SyncQueryStore(1, TRUE)
  \/ SyncWriteSnapshot(1, TRUE)
  \/ ReloadSnapshot(1, TRUE)
  \/ \E i \in 1..Len(tasks[1]) : WeatherCacheGet(1, i, TRUE)
  \/ \E i \in 1..Len(tasks[1]) : ProviderRespond(1, i, TRUE, TRUE)
  \/ BatchStep(1)
  \/ Forget(1)
  \/ AdminSyncAll
  \/ \E ok \in BOOLEAN : AdminSyncQuery(ok)
  \/ \E ok \in BOOLEAN : AdminSyncWrite(ok)
  \/ AdminClearCache
  \/ \E ok \in BOOLEAN : AdminFlush(ok)
  \/ AdminForget
  \/ \E active \in BOOLEAN : StoreSetActive(2, active)

SpecAdmin == InitAdmin /\ [][NextAdmin]_vars

-----------------------------------------------------------------------------
(* SpecRepeat: searches repeated through the middleware, by several clients   *)
(* at once, over a warm snapshot that never expires and a store that never   *)
(* changes; the provider may fail, the cache answers.  A request cache entry *)
(* lives 10 s and a provider call at most 5 s (axios timeout): an entry      *)
(* expires only while no provider call is in flight.                         *)

RepeatQueries == { NoQuery, [NoQuery EXCEPT !.tempMin = Some(20)] }

InitRepeat ==
  /\ db = ConcTable
  /\ propsCache = Some(redisData(db))
  /\ weatherCache = EmptyCache
  /\ bootPc = "idle"
  /\ bootData = << >>
  /\ InitRequests

NextRepeat ==
  \/ \E key \in DOMAIN requestCache :
        /\ \A r \in Reqs : \A i \in 1..Len(tasks[r]) : tasks[r][i].st # "fetch"
        /\ ExpireRequest(key)
  \/ \E r \in Reqs, q \in RepeatQueries : Request(r, q)
  \/ \E r \in Reqs : LoadSnapshot(r, TRUE)
  \/ \E r \in Reqs : \E i \in 1..Len(tasks[r]) : WeatherCacheGet(r, i, TRUE)
  \/ \E r \in Reqs : \E i \in 1..Len(tasks[r]), ok \in BOOLEAN :
        ProviderRespond(r, i, ok, TRUE)
  \/ \E r \in Reqs : BatchStep(r)
  \/ \E r \in Reqs : Forget(r)

SpecRepeat == InitRepeat /\ [][NextRepeat]_vars

-----------------------------------------------------------------------------
(* SpecWeatherBatch: one call of WeatherService.getWeatherBatch on every     *)
(* list of up to MaxCoords coordinates; each provider call may fail.         *)

BatchKeys == { << 1, 0 >>, << 2, 0 >>, << 4, 0 >> }

RECURSIVE CoordLists(_)
CoordLists(n) ==
  IF n = 0 THEN { << >> }
  ELSE LET shorter == CoordLists(n - 1)
       IN  shorter \cup { Append(l, k) : l \in { x \in shorter : Len(x) = n - 1 },
                                         k \in BatchKeys }

InitWeatherBatch ==
  /\ db = {}
  /\ propsCache = Undefined
  /\ weatherCache = EmptyCache
  /\ bootPc = "idle"
  /\ bootData = << >>
  /\ pc = [r \in Reqs |-> "idle"]
  /\ filters = [r \in Reqs |-> buildFilters(NoQuery)]
  /\ filtered = [r \in Reqs |-> << >>]
  /\ syncData = [r \in Reqs |-> << >>]
  /\ input = [r \in Reqs |-> << >>]
  /\ tasks = [r \in Reqs |-> << >>]
  /\ batchI = [r \in Reqs |-> 0]
  /\ results = [r \in Reqs |-> << >>]
  /\ response = [r \in Reqs |-> NoResponse]
  /\ errs = [r \in Reqs |-> {}]
  /\ ops = [r \in Reqs |-> {}]
  /\ cacheKey = [r \in Reqs |-> Undefined]
  /\ requestCache = EmptyRequestCache
  /\ admin = NoAdmin
  /\ prev = NoPrev
  /\ call = NoCall
  /\ nodeEnv = "production"
  /\ \E l \in CoordLists(MaxCoords) :
        wb = [coords |-> l, failed |-> {}, results |-> << >>]

NextWeatherBatch == \E ok \in BOOLEAN : BatchFetchNext(ok)

SpecWeatherBatch == InitWeatherBatch /\ [][NextWeatherBatch]_vars

-----------------------------------------------------------------------------
(* SpecWeatherCode: fetchFreshWeather on every well-formed provider body     *)
(* with a weather code in 0..MaxCode.                                        *)

\* Everything but `call`.
notCall == << shared, pc, filters, filtered, syncData, lookupVars, response, errs, ops,
              requestCache, cacheKey, admin, prev, wb, nodeEnv >>

\* fetchFreshWeather builds its record from response.data.current and returns it.
FetchFreshWeatherReturns ==
  /\ call.fn = "fetchFreshWeather"
  /\ call.result = << >>
  /\ call' = [call EXCEPT !.result = Some(fetchFreshWeather(call.arg))]
  /\ UNCHANGED notCall

ProviderBodies ==
  { [temperature_2m |-> t, relative_humidity_2m |-> h, weather_code |-> c] :
      t \in {-54, 0, 184}, h \in {0, 806}, c \in 0..MaxCode }

InitWeatherCode ==
  /\ db = SmallTable
  /\ propsCache = Undefined
  /\ weatherCache = EmptyCache
  /\ bootPc = "idle"
  /\ bootData = << >>
  /\ InitSlots
  /\ nodeEnv = "production"
  /\ \E cur \in ProviderBodies :
        call = [fn |-> "fetchFreshWeather", arg |-> cur, result |-> << >>]

NextWeatherCode == FetchFreshWeatherReturns

SpecWeatherCode == InitWeatherCode /\ [][NextWeatherCode]_vars

-----------------------------------------------------------------------------
(* SpecSuggest: GET /suggestions, one request at a time, over a warm         *)
(* snapshot of MaxSuggestProps properties of which all but one are named     *)
(* "ab" or "Ab"; the cache read and the provider may fail.                   *)

SuggestTable(n) ==
  { Row(i,
        IF i = 3 THEN Text2("b", "a") ELSE IF i % 2 = 1 THEN Text2("A", "b")
                                      ELSE Text2("a", "b"),
        Text1("c"), Text1("a"),
        IF i <= 2 THEN Some(10 * i) ELSE Undefined,
        IF i <= 2 THEN Some(10) ELSE Undefined, TRUE) : i \in 1..n }

SuggestQueries ==
  { Undefined, Some(<< >>), Some(Text1("a")), Some(Text2("a", "b")),
    Some(Text2("A", "B")), Some(Text2("b", "A")), Some(Text2("b", "c")),
    Some(<< "a", "b", "c" >>) }

InitSuggest ==
  /\ db = SuggestTable(MaxSuggestProps)
  /\ propsCache = Some(redisData(db))
  /\ weatherCache = EmptyCache
  /\ bootPc = "idle"
  /\ bootData = << >>
  /\ InitRequests

NextSuggest ==
  \/ \E q \in SuggestQueries : Suggest(1, q)
  \/ \E ok \in BOOLEAN : LoadSnapshot(1, ok)
  \/ \E i \in 1..Len(tasks[1]) : WeatherCacheGet(1, i, TRUE)
  \/ \E i \in 1..Len(tasks[1]), ok \in BOOLEAN : ProviderRespond(1, i, ok, TRUE)
  \/ BatchStep(1)
  \/ DelayElapsed(1)
  \/ Forget(1)

SpecSuggest == InitSuggest /\ [][NextSuggest]_vars

-----------------------------------------------------------------------------
(* SpecErrors: the routes that can answer 500, in development and in         *)
(* production, over a cold cache; the cache and the store may fail.          *)

NodeEnvs == {"development", "production"}

InitErrors ==
  /\ db = ConcTable
  /\ propsCache = Undefined
  /\ weatherCache = EmptyCache
  /\ bootPc = "idle"
  /\ bootData = << >>
  /\ InitSlots
  /\ call = NoCall
  /\ nodeEnv \in NodeEnvs

NextErrors ==
  \/ Arrive(1, NoQuery)
  \/ \E ok \in BOOLEAN : LoadSnapshot(1, ok)
  \/ \E ok \in BOOLEAN : SyncQueryStore(1, ok)
  \/ \E ok \in BOOLEAN : SyncWriteSnapshot(1, ok)
  \/ \E ok \in BOOLEAN : ReloadSnapshot(1, ok)
  \/ \E i \in 1..Len(tasks[1]), ok \in BOOLEAN : WeatherCacheGet(1, i, ok)
  \/ \E i \in 1..Len(tasks[1]) : ProviderRespond(1, i, TRUE, TRUE)
  \/ BatchStep(1)
  \/ Forget(1)
  \/ MetricsArrive
  \/ \E ok \in BOOLEAN : MetricsAnswer(ok)
  \/ AdminForget

SpecErrors == InitErrors /\ [][NextErrors]_vars

-----------------------------------------------------------------------------
(* SpecBatchCached: one call of WeatherService.getWeatherBatch on a list of  *)
(* coordinates some of which have an entry in the weather cache.             *)

\* The record the unit test puts in the cache.
TestRecord == Weather(28, 75, "Clear")

\* The weather caches that hold TestRecord for some of the coordinates.
CachedWeather ==
  { [k \in keys |-> TestRecord] : keys \in SUBSET BatchKeys }

InitBatchCached ==
  /\ db = {}
  /\ propsCache = Undefined
  /\ weatherCache \in CachedWeather
  /\ bootPc = "idle"
  /\ bootData = << >>
  /\ pc = [r \in Reqs |-> "idle"]
  /\ filters = [r \in Reqs |-> buildFilters(NoQuery)]
  /\ filtered = [r \in Reqs |-> << >>]
  /\ syncData = [r \in Reqs |-> << >>]
  /\ input = [r \in Reqs |-> << >>]
  /\ tasks = [r \in Reqs |-> << >>]
  /\ batchI = [r \in Reqs |-> 0]
  /\ results = [r \in Reqs |-> << >>]
  /\ response = [r \in Reqs |-> NoResponse]
  /\ errs = [r \in Reqs |-> {}]
  /\ ops = [r \in Reqs |-> {}]
  /\ cacheKey = [r \in Reqs |-> Undefined]
  /\ requestCache = EmptyRequestCache
  /\ admin = NoAdmin
  /\ prev = NoPrev
  /\ call = NoCall
  /\ nodeEnv = "production"
  /\ \E l \in CoordLists(MaxCoords) :
        wb = [coords |-> l, failed |-> {}, results |-> << >>]

SpecBatchCached == InitBatchCached /\ [][NextWeatherBatch]_vars

-----------------------------------------------------------------------------
(* SpecFilterByWeather: WeatherService.filterByWeather on every list of up   *)
(* to MaxRecords records and every combination of bounds below.              *)

FilterByWeatherReturns ==
  /\ call.fn = "filterByWeather"
  /\ call.result = << >>
  /\ call' = [call EXCEPT !.result = Some(filterByWeather(call.arg.data, call.arg.filters))]
  /\ UNCHANGED notCall

SampleRecords ==
  { Weather(25, 60, "Clear"), Weather(35, 70, "Cloudy"), Weather(30, 60, "Clear"),
    Weather(-5, 81, "Snow") }

RECURSIVE RecordLists(_)
RecordLists(n) ==
  IF n = 0 THEN { << >> }
  ELSE LET shorter == RecordLists(n - 1)
       IN  shorter \cup { Append(l, w) : l \in { x \in shorter : Len(x) = n - 1 },
                                         w \in SampleRecords }

SampleWeatherFilters ==
  { [tempMin |-> a, tempMax |-> b, humidityMin |-> c, humidityMax |-> d,
     weatherCondition |-> e] :
      a \in {Undefined, Some(0), Some(30)}, b \in {Undefined, Some(30)},
      c \in {Undefined, Some(60)}, d \in {Undefined, Some(60)},
      e \in {Undefined, Some(""), Some("Clear")} }

InitFilterByWeather ==
  /\ db = {}
  /\ propsCache = Undefined
  /\ weatherCache = EmptyCache
  /\ bootPc = "idle"
  /\ bootData = << >>
  /\ InitSlots
  /\ nodeEnv = "production"
  /\ \E l \in RecordLists(MaxRecords), f \in SampleWeatherFilters :
        call = [fn |-> "filterByWeather", arg |-> [data |-> l, filters |-> f],
                result |-> << >>]

NextFilterByWeather == FilterByWeatherReturns

SpecFilterByWeather == InitFilterByWeather /\ [][NextFilterByWeather]_vars

-----------------------------------------------------------------------------
(* SpecReload: reloads of the snapshot that overlap (the constructor's sync,  *)
(* a search on a cold cache, POST /admin/sync-all) while another client of   *)
(* the store deactivates properties.  The store only ever loses active       *)
(* properties here, so of two store reads the one that returned more records *)
(* is the earlier one.                                                       *)

InitReload ==
  /\ db = ConcTable
  /\ propsCache = Undefined
  /\ weatherCache = EmptyCache
  /\ bootPc = "dbQuery"
  /\ bootData = << >>
  /\ InitRequests

NextReload ==
  \/ BootQueryStore(TRUE)
  \/ BootWriteSnapshot(TRUE)
  \/ ExpireSnapshot
  \/ Arrive(1, NoQuery)
  \/ LoadSnapshot(1, TRUE)
  \/ SyncQueryStore(1, TRUE)
  \/ SyncWriteSnapshot(1, TRUE)
  \/ ReloadSnapshot(1, TRUE)
  \/ \E i \in 1..Len(tasks[1]) : WeatherCacheGet(1, i, TRUE)
  \/ \E i \in 1..Len(tasks[1]) : ProviderRespond(1, i, TRUE, TRUE)
  \/ BatchStep(1)
  \/ Forget(1)
  \/ AdminSyncAll
  \/ AdminSyncQuery(TRUE)
  \/ AdminSyncWrite(TRUE)
  \/ AdminForget
  \/ \E id \in 1..2 : StoreSetActive(id, FALSE)

SpecReload == InitReload /\ [][NextReload]_vars

-----------------------------------------------------------------------------
(* SpecEquator: searches over a warm snapshot of a store that holds a        *)
(* property on the equator (latitude 0), one on the prime meridian           *)
(* (longitude 0), three elsewhere and one without coordinates; the cache and *)
(* the provider answer, weather entries expire.                              *)

EquatorTable ==
  { Row(1, Text1("a"), Text1("c"), Text1("a"), Some(0), Some(30), TRUE),
    Row(2, Text1("b"), Text1("c"), Text1("a"), Some(30), Some(0), TRUE),
    Row(3, Text1("c"), Text1("c"), Text1("a"), Some(20), Some(20), TRUE),
    Row(4, Text2("c", "a"), Text1("c"), Text1("a"), Undefined, Undefined, TRUE),
    Row(5, Text2("c", "b"), Text1("c"), Text1("a"), Some(22), Some(30), TRUE),
    Row(6, Text2("c", "c"), Text1("c"), Text1("a"), Some(10), Some(10), TRUE) }

EquatorQueries ==
  { [NoQuery EXCEPT !.tempMax = a, !.limit = l] :
      a \in {Undefined, Some(20)}, l \in {Undefined, Some(2)} }

InitEquator ==
  /\ db = EquatorTable
  /\ propsCache = Some(redisData(db))
  /\ weatherCache = EmptyCache
  /\ bootPc = "idle"
  /\ bootData = << >>
  /\ InitRequests

NextEquator ==
  \/ \E key \in DOMAIN weatherCache : ExpireWeather(key)
  \/ \E q \in EquatorQueries : Arrive(1, q)
  \/ LoadSnapshot(1, TRUE)
  \/ \E i \in 1..Len(tasks[1]) : WeatherCacheGet(1, i, TRUE)
  \/ \E i \in 1..Len(tasks[1]) : ProviderRespond(1, i, TRUE, TRUE)
  \/ BatchStep(1)
  \/ Forget(1)

SpecEquator == InitEquator /\ [][NextEquator]_vars

-----------------------------------------------------------------------------
(* SpecPages: a client pages through the results of a search, through the    *)
(* middleware, one request at a time and one page after the other, over a    *)
(* warm snapshot and a weather cache that holds the record of every          *)
(* coordinate; nothing expires and the store does not change.                *)

\* MaxPageProps active properties whose ids are not in name order; the last
\* has no coordinates.
PageTable ==
  { Row(i, Text2("a", IF i % 2 = 0 THEN "a" ELSE "b"), Text1("c"), Text1("a"),
        IF i < MaxPageProps THEN Some(10 * i) ELSE Undefined,
        IF i < MaxPageProps THEN Some(10) ELSE Undefined, TRUE) : i \in 1..MaxPageProps }

\* The filters the client keeps fixed while it pages.
PageFilters == { NoQuery, [NoQuery EXCEPT !.tempMin = Some(20)] }

\* The page sizes L.
PageSizes == { 1, 2 }

\* Page k of the search `base` with limit L, and the same search asked for
\* everything at once.
PageQuery(base, L, k) == [base EXCEPT !.limit = Some(L), !.offset = Some(k * L)]
WholeQuery(base) == [base EXCEPT !.limit = Some(MaxPageProps), !.offset = Some(0)]

PagedQueries ==
  { q \in { PageQuery(base, L, k) :
               base \in PageFilters, L \in PageSizes, k \in 0..MaxPageProps } :
        ValueOf(q.offset) <= MaxPageProps }
    \cup { WholeQuery(base) : base \in PageFilters }

\* The client keeps its filters (every query asked so far differs from q in
\* limit and offset at most) and asks for a page once it has had the one
\* before it.
PrecedingPageSeen(q) ==
  /\ \A k \in DOMAIN prev : [k EXCEPT !.limit = q.limit, !.offset = q.offset] = q
  /\ \/ ValueOf(q.offset) = 0
     \/ [q EXCEPT !.offset = Some(ValueOf(q.offset) - ValueOf(q.limit))] \in DOMAIN prev

\* The weather cache with the provider's record under the key of every
\* property of the table that has coordinates.
WarmWeatherCache(table) ==
  LET props == redisData(table)
      keys == { weatherKey(props[i]) : i \in { j \in 1..Len(props) :
                                                 props[j].lat # 0 /\ props[j].lng # 0 } }
  IN  [k \in keys |-> cacheWriteOf(k, TRUE)]

InitPages ==
  /\ db = PageTable
  /\ propsCache = Some(redisData(db))
  /\ weatherCache = WarmWeatherCache(db)
  /\ bootPc = "idle"
  /\ bootData = << >>
  /\ InitRequests

NextPages ==
  \/ \E q \in PagedQueries : PrecedingPageSeen(q) /\ Request(1, q)
  \/ LoadSnapshot(1, TRUE)
  \/ \E i \in 1..Len(tasks[1]) : WeatherCacheGet(1, i, TRUE)
  \/ BatchStep(1)
  \/ Forget(1)

SpecPages == InitPages /\ [][NextPages]_vars

-----------------------------------------------------------------------------
(* SpecLive: one search at a time over a warm snapshot of MaxOrderProps      *)
(* properties (two groups of lookups), with what the code's scheduling       *)
(* guarantees: Redis answers every read (with a value or an error), a        *)
(* provider call ends at the latest by its timeout of 5 s, the pacing delay  *)
(* elapses and a settled group is collected.  That the provider answers is   *)
(* not guaranteed.                                                           *)

\* n active properties; the first two and the last have coordinates.
LiveTable(n) ==
  { Row(i, Text1("a"), Text1("c"), Text1("a"),
        IF i \in {1, 2, n} THEN Some(10 * i) ELSE Undefined,
        IF i \in {1, 2, n} THEN Some(10) ELSE Undefined, TRUE) : i \in 1..n }

LiveQueries ==
  { NoQuery, [NoQuery EXCEPT !.humidityMin = Some(30)], [NoQuery EXCEPT !.tempMin = Some(-25)] }

InitLive ==
  /\ db = LiveTable(MaxOrderProps)
  /\ propsCache = Some(redisData(db))
  /\ weatherCache = EmptyCache
  /\ bootPc = "idle"
  /\ bootData = << >>
  /\ InitRequests

\* A provider call ends without an answer: the axios timeout fires.
ProviderTimesOut(r) ==
  \E i \in 1..Len(tasks[r]), setOk \in BOOLEAN : ProviderRespond(r, i, FALSE, setOk)

NextLive ==
  \/ \E q \in LiveQueries : Arrive(1, q)
  \/ \E ok \in BOOLEAN : LoadSnapshot(1, ok)
  \/ \E i \in 1..Len(tasks[1]), ok \in BOOLEAN : WeatherCacheGet(1, i, ok)
  \/ \E i \in 1..Len(tasks[1]), setOk \in BOOLEAN : ProviderRespond(1, i, TRUE, setOk)
  \/ ProviderTimesOut(1)
  \/ BatchStep(1)
  \/ DelayElapsed(1)
  \/ Forget(1)

SpecLive ==
  /\ InitLive
  /\ [][NextLive]_vars
  /\ WF_vars(\E ok \in BOOLEAN : LoadSnapshot(1, ok))
  /\ WF_vars(\E i \in 1..Len(tasks[1]), ok \in BOOLEAN : WeatherCacheGet(1, i, ok))
  /\ WF_vars(ProviderTimesOut(1))
  /\ WF_vars(BatchStep(1))
  /\ WF_vars(DelayElapsed(1))

-----------------------------------------------------------------------------
(* GET /health (index.ts) and SpecHealth: health checks next to one search   *)
(* at a time on a cold cache; each of the three probes may fail.             *)

\* prisma.$queryRaw`SELECT 1 as health`.catch(() => null)
queryRawHealth(ok) == IF ok THEN Some("rows") ELSE Undefined

\* CacheService.getStats: redis.info() returns (ok) or throws; the catch
\* returns { connected: false, error }.  The promise never rejects.
getStats(ok) == Some([connected |-> ok])

\* RedisPropertyService.getServiceStats: the reads of Redis return (ok) or
\* throw; the catch returns { redis: { connection_status: 'error', error } }.
\* The promise never rejects.
getServiceStats(ok) ==
  Some([redis |-> [connection_status |-> IF ok THEN "connected" ELSE "error"]])

\* The `services` object of the response.  serviceHealth?.redis is an object
\* in both returns of getServiceStats, and an object is truthy.
healthServices(dbHealth, cacheHealth, serviceHealth) ==
  [database |-> IF IsDefined(dbHealth) THEN "connected" ELSE "disconnected",
   cache |-> IF IsDefined(cacheHealth) /\ ValueOf(cacheHealth).connected
             THEN "connected" ELSE "disconnected",
   redis |-> IF IsDefined(serviceHealth) /\ DOMAIN ValueOf(serviceHealth).redis # {}
             THEN "connected" ELSE "disconnected"]

\* GET /health arrives: the three probes are issued under one Promise.all.
HealthArrive ==
  /\ call.fn = "none" \/ (call.fn = "health" /\ call.result # << >>)
  /\ call' = [fn |-> "health", arg |-> << >>, result |-> << >>]
  /\ UNCHANGED notCall

\* Promise.all resolves (no probe rejects) and the handler answers; `arg`
\* keeps which probes succeeded.
HealthAnswer(dbOk, cacheOk, redisOk) ==
  /\ call.fn = "health"
  /\ call.result = << >>
  /\ call' = [call EXCEPT
                !.arg = [database |-> dbOk, cache |-> cacheOk, redis |-> redisOk],
                !.result = Some(healthServices(queryRawHealth(dbOk), getStats(cacheOk),
                                               getServiceStats(redisOk)))]
  /\ UNCHANGED notCall

InitHealth ==
  /\ db = ConcTable
  /\ propsCache = Undefined
  /\ weatherCache = EmptyCache
  /\ bootPc = "idle"
  /\ bootData = << >>
  /\ InitRequests

NextHealth ==
  \/ HealthArrive
  \/ \E dbOk \in BOOLEAN, cacheOk \in BOOLEAN, redisOk \in BOOLEAN :
        HealthAnswer(dbOk, cacheOk, redisOk)
  \/ Arrive(1, NoQuery)
  \/ \E ok \in BOOLEAN : LoadSnapshot(1, ok)
  \/ \E ok \in BOOLEAN : SyncQueryStore(1, ok)
  \/ \E ok \in BOOLEAN : SyncWriteSnapshot(1, ok)
  \/ \E ok \in BOOLEAN : ReloadSnapshot(1, ok)
  \/ \E i \in 1..Len(tasks[1]), ok \in BOOLEAN : WeatherCacheGet(1, i, ok)
  \/ \E i \in 1..Len(tasks[1]) : ProviderRespond(1, i, TRUE, TRUE)
  \/ BatchStep(1)
  \/ Forget(1)

SpecHealth == InitHealth /\ [][NextHealth]_vars

-----------------------------------------------------------------------------
(* PropertyService.searchWithDatabase (the store-backed search) and          *)
(* SpecDatabaseSearch: one call of it on every sample filter, over a store   *)
(* that holds properties at a coordinate of 0 and one without coordinates;   *)
(* every provider call may fail.                                             *)

\* The `where` of the store queries: isActive, name contains searchText, city
\* and state equal to the filter's (compared in the case the text is stored in).
matchesWhere(row, f) ==
  /\ row.isActive
  /\ TruthyText(f.searchText) => Includes(row.name, ValueOf(f.searchText))
  /\ TruthyText(f.city) => row.city = ValueOf(f.city)
  /\ TruthyText(f.state) => row.state = ValueOf(f.state)

\* PropertyService.hasWeatherFilters: a bound counts when it is a number (0
\* included), a condition when it is not blank.
PropertyService_hasWeatherFilters(f) ==
  \/ IsDefined(f.tempMin) \/ IsDefined(f.tempMax)
  \/ IsDefined(f.humidityMin) \/ IsDefined(f.humidityMax)
  \/ TruthyStr(f.weatherCondition)

\* { ...property, weather }: the weather is undefined or a record.
WithOptionalWeather(row, w) ==
  [id |-> row.id, name |-> row.name, city |-> row.city, state |-> row.state,
   lat |-> row.lat, lng |-> row.lng, weather |-> w]

\* PropertyService.addWeatherData: one getWeatherBatch over the rows whose lat
\* and lng are both truthy (`failed` holds the ids whose provider call throws);
\* the records go into a Map under `${latitude},${longitude}`, so of two rows
\* at one coordinate pair the later record is the one both get.
addWeatherData(properties, failed) ==
  LET located == { i \in 1..Len(properties) :
                      TruthyNum(properties[i].lat) /\ TruthyNum(properties[i].lng) }
      recordOf(i) ==
        getWeatherBatch(<< ToFixed4(ValueOf(properties[i].lat)),
                           ToFixed4(ValueOf(properties[i].lng)) >>,
                        properties[i].id \notin failed)[1]
      lastAt(i) ==
        CHOOSE j \in located :
          /\ properties[j].lat = properties[i].lat /\ properties[j].lng = properties[i].lng
          /\ \A k \in located :
                (properties[k].lat = properties[i].lat /\ properties[k].lng = properties[i].lng)
                  => k <= j
  IN  [i \in 1..Len(properties) |->
         WithOptionalWeather(properties[i],
           IF i \in located THEN Some(recordOf(lastAt(i))) ELSE Undefined)]

\* PropertyService.applyWeatherFilters: a property without weather passes only
\* when no weather filter is present.
PropertyService_applyWeatherFilters(properties, f) ==
  SelectSeq(properties, LAMBDA p :
    IF ~IsDefined(p.weather) THEN ~PropertyService_hasWeatherFilters(f)
    ELSE LET weather == ValueOf(p.weather)
         IN  /\ ~(IsDefined(f.tempMin) /\ weather.temperature < ValueOf(f.tempMin))
             /\ ~(IsDefined(f.tempMax) /\ weather.temperature > ValueOf(f.tempMax))
             /\ ~(IsDefined(f.humidityMin) /\ weather.humidity < ValueOf(f.humidityMin))
             /\ ~(IsDefined(f.humidityMax) /\ weather.humidity > ValueOf(f.humidityMax))
             /\ ~(TruthyStr(f.weatherCondition)
                   /\ weather.condition # ValueOf(f.weatherCondition)))

\* searchWithDatabase over the store `table`, for a limit >= 1 and an offset
\* >= 0 (take and skip of the store query then cut like slice).
searchWithDatabase(table, f, failed) ==
  LET rows == OrderByName({ row \in table : matchesWhere(row, f) })
      limit == limitOf(f)
      offset == offsetOf(f)
  IN  IF PropertyService_hasWeatherFilters(f)
      THEN LET propertiesWithWeather == addWeatherData(rows, failed)
               filteredProperties == PropertyService_applyWeatherFilters(propertiesWithWeather, f)
           IN  [properties |-> Slice(filteredProperties, offset, offset + limit),
                total |-> Len(filteredProperties),
                hasMore |-> offset + limit < Len(filteredProperties)]
      ELSE [properties |-> addWeatherData(Slice(rows, offset, offset + limit), failed),
            total |-> Len(rows),
            hasMore |-> offset + limit < Len(rows)]

\* The call returns.
SearchWithDatabaseReturns ==
  /\ call.fn = "searchWithDatabase"
  /\ call.result = << >>
  /\ call' = [call EXCEPT
                !.result = Some(searchWithDatabase(db, call.arg.filters, call.arg.failed))]
  /\ UNCHANGED notCall

DatabaseSearchFilters ==
  { buildFilters([NoQuery EXCEPT !.tempMin = a, !.tempMax = b, !.limit = l, !.offset = o]) :
      a \in {Undefined, Some(0), Some(20)}, b \in {Undefined, Some(20)},
      l \in {Undefined, Some(1), Some(2)}, o \in {Undefined, Some(1), Some(2)} }

InitDatabaseSearch ==
  /\ db = EquatorTable
  /\ propsCache = Undefined
  /\ weatherCache = EmptyCache
  /\ bootPc = "idle"
  /\ bootData = << >>
  /\ InitSlots
  /\ nodeEnv = "production"
  /\ \E f \in DatabaseSearchFilters, failed \in SUBSET {3, 5} :
        call = [fn |-> "searchWithDatabase", arg |-> [filters |-> f, failed |-> failed],
                result |-> << >>]

NextDatabaseSearch == SearchWithDatabaseReturns

SpecDatabaseSearch == InitDatabaseSearch /\ [][NextDatabaseSearch]_vars

-----------------------------------------------------------------------------
(* Properties *)

Answered(r, status) == pc[r] = "done" /\ response[r].status = status

\* Answered 200 after a run in which the store, the cache and the provider all
\* answered: the plainest case of a claim about the result of a search.
Served(r) == Answered(r, 200) /\ errs[r] = {}

\* A weather record meets every bound that is present in the filters.
MeetsPresentBounds(w, f) ==
  /\ IsDefined(f.tempMin) => w.temperature >= ValueOf(f.tempMin)
  /\ IsDefined(f.tempMax) => w.temperature <= ValueOf(f.tempMax)
  /\ IsDefined(f.humidityMin) => w.humidity >= ValueOf(f.humidityMin)
  /\ IsDefined(f.humidityMax) => w.humidity <= ValueOf(f.humidityMax)
  /\ IsDefined(f.weatherCondition) => w.condition = ValueOf(f.weatherCondition)

\* The store row of a property has no latitude or no longitude.
LacksCoordinates(id) ==
  \E row \in db : row.id = id /\ (~IsDefined(row.lat) \/ ~IsDefined(row.lng))

\* The positions of the enriched records that meet every present bound.
Matching(r) ==
  { i \in 1..Len(results[r]) : MeetsPresentBounds(results[r][i].weather, filters[r]) }

\* C1: the total of every answered search is the number of records that pass
\* the basic filters and, when a weather filter is present, whose weather meets
\* every present bound.
C1_TotalCountsEveryFilter ==
  \A r \in Reqs :
    Served(r) =>
      response[r].total =
        IF hasWeatherFilters(filters[r]) THEN Cardinality(Matching(r))
        ELSE Len(filtered[r])

\* C2: hasMore is true exactly when offset + (length of the page) < total.
C2_HasMoreIffRecordsRemain ==
  \A r \in Reqs :
    Served(r) =>
      (response[r].hasMore <=>
         response[r].offset + Len(response[r].data) < response[r].total)

\* Some weather bound of the filters is present and is not zero.
HasNonZeroBound(f) ==
  \/ TruthyNum(f.tempMin) \/ TruthyNum(f.tempMax)
  \/ TruthyNum(f.humidityMin) \/ TruthyNum(f.humidityMax)

\* C3: with a weather filter present, no property without latitude or longitude
\* is returned in data or counted in total.  Stated for filters with a non-zero
\* bound, the case in which the weather predicates of the search are evaluated.
C3_NoCoordinatesNoWeatherMatch ==
  \A r \in Reqs :
    (Served(r) /\ hasWeatherFilters(filters[r]) /\ HasNonZeroBound(filters[r])) =>
      /\ \A i \in 1..Len(response[r].data) : ~LacksCoordinates(response[r].data[i].id)
      /\ response[r].total <=
           Cardinality({ i \in 1..Len(results[r]) :
                           /\ ~LacksCoordinates(results[r][i].id)
                           /\ MeetsPresentBounds(results[r][i].weather, filters[r]) })

\* C4: with a weather filter present, every returned record meets every present
\* bound, and the records counted are exactly the enriched records that do.
C4_WeatherBoundsExact ==
  \A r \in Reqs :
    (Served(r) /\ hasWeatherFilters(filters[r])) =>
      /\ \A i \in 1..Len(response[r].data) :
            MeetsPresentBounds(response[r].data[i].weather, filters[r])
      /\ response[r].total = Cardinality(Matching(r))

\* The searches whose snapshot reload is in flight: from the store query to the
\* cache write.
Reloading == { r \in Reqs : pc[r] \in {"dbQuery", "setProps"} }

\* C5: at most one search at a time has a snapshot reload in flight; searches
\* that find the snapshot missing meanwhile do not query the store themselves.
C5_SingleFlightReload == Cardinality(Reloading) <= 1

\* The provider calls of one search that are in flight.
ProviderCallsInFlight(r) ==
  Cardinality({ i \in 1..Len(tasks[r]) : tasks[r][i].st = "fetch" })

\* C6: during one search at most batchSize provider calls are in flight.
C6_AtMostTenProviderCalls ==
  \A r \in Reqs : ProviderCallsInFlight(r) <= batchSize

\* The records a lookup for `prop` may settle with: the default record, or the
\* record of a provider answer for its own coordinates (fresh or cached).
OwnWeather(prop) ==
  { createDefaultWeather, fetchFreshWeather(ProviderReading(weatherKey(prop))) }

\* C7: attachWeatherData returns one record per input, the record at position i
\* being input i with the weather of input i's own lookup; while it runs, the
\* records it has collected are those of the first inputs, in order.
C7_OneRecordPerInputInOrder ==
  \A r \in Reqs :
    /\ Len(results[r]) <= Len(input[r])
    /\ \A i \in 1..Len(results[r]) :
          /\ results[r][i].id = input[r][i].id
          /\ results[r][i].lat = input[r][i].lat
          /\ results[r][i].lng = input[r][i].lng
          /\ results[r][i].weather = tasks[r][i].weather
          /\ results[r][i].weather \in OwnWeather(input[r][i])
    /\ Answered(r, 200) => Len(results[r]) = Len(input[r])

\* A search over more than batchSize properties has been answered; the provider
\* call for the first property failed and the one for the last succeeded.
C7_Witness ==
  /\ Answered(1, 200)
  /\ Len(input[1]) > batchSize
  /\ Len(results[1]) = Len(input[1])
  /\ "provider" \in errs[1]
  /\ results[1][1].weather = createDefaultWeather
  /\ results[1][Len(input[1])].weather # createDefaultWeather

\* C8: a request that passed validation and met no failing cache read is
\* answered 200, whichever provider calls failed: a provider failure never
\* turns into a failed search.
C8_ProviderFailureNeverFatal ==
  \A r \in Reqs :
    (pc[r] = "done" /\ response[r].status # 400 /\ "cacheRead" \notin errs[r]) =>
      response[r].status = 200

\* A search has been answered 200 although one of its provider calls failed; the
\* property concerned carries the default record.
C8_Witness ==
  /\ Answered(1, 200)
  /\ "provider" \in errs[1]
  /\ errs[1] \cap {"cacheRead", "cacheWrite", "store"} = {}
  /\ \E i \in 1..Len(response[1].data) :
        /\ ~LacksCoordinates(response[1].data[i].id)
        /\ response[1].data[i].weather = createDefaultWeather

\* C9: a request during which a cache read or write threw is still answered 200.
C9_CacheFailureNeverFatal ==
  \A r \in Reqs :
    (pc[r] = "done" /\ errs[r] \cap {"cacheRead", "cacheWrite"} # {}) =>
      response[r].status = 200

\* C10: a request whose snapshot reload could not read the store is answered
\* 500, and that reload has nothing to write to the cache.
C10_StoreFailureIsFatal ==
  \A r \in Reqs :
    "store" \in errs[r] =>
      /\ syncData[r] = << >>
      /\ pc[r] = "done" => response[r].status = 500

\* The query string of a request that came in through the middleware is
\* rejected by the validation of getProperties.
InvalidQuery(r) ==
  /\ IsDefined(cacheKey[r])
  /\ validationError(buildFilters(ValueOf(cacheKey[r]))) # ""

\* C11: every request whose query has an out-of-range bound or an unknown
\* weather condition is answered 400 with an error string, whatever requests
\* were served before it.
C11_InvalidQueryAnswered400 ==
  \A r \in Reqs :
    (pc[r] = "done" /\ InvalidQuery(r)) =>
      response[r].status = 400 /\ response[r].error # ""

\* C12: in a call of getWeatherBatch on a list, a coordinate whose provider call
\* failed has the default record at its position, and every other coordinate
\* has the record of its own provider call; no failure removes or shifts a record.
C12_FailureDegradesOneCoordinate ==
  /\ Len(wb.results) <= Len(wb.coords)
  /\ wb.failed \subseteq 1..Len(wb.results)
  /\ \A i \in 1..Len(wb.results) :
        wb.results[i] = IF i \in wb.failed THEN createDefaultWeather
                        ELSE fetchFreshWeather(ProviderReading(wb.coords[i]))

\* A call on three coordinates has returned; the second provider call failed,
\* the first and the third coordinate carry their own, different records.
C12_Witness ==
  /\ Len(wb.coords) = 3
  /\ Len(wb.results) = 3
  /\ wb.failed = {2}
  /\ wb.results[2] = createDefaultWeather
  /\ wb.results[1] # createDefaultWeather
  /\ wb.results[3] # createDefaultWeather
  /\ wb.results[1] # wb.results[3]

\* The positions of the enrichment input of r whose property has no latitude
\* or no longitude in the store.
WithoutCoordinates(r) == { i \in 1..Len(input[r]) : LacksCoordinates(input[r][i].id) }

\* C13: in a search without weather filter a property without coordinates is
\* counted in total and returned when it falls on the page, and its lookup is
\* settled with the default record from the start: it never waits for a cache
\* read or a provider call and never carries a record of the provider.
C13_NoCoordinatesKeptWithoutLookup ==
  \A r \in Reqs :
    ~hasWeatherFilters(filters[r]) =>
      /\ \A i \in WithoutCoordinates(r) :
            tasks[r][i] = [st |-> "resolved", weather |-> createDefaultWeather]
      /\ Answered(r, 200) =>
            /\ response[r].total = Len(filtered[r])
            /\ response[r].data =
                 [i \in 1..Len(input[r]) |-> WithWeather(input[r][i], tasks[r][i].weather)]
            /\ input[r] = paginate(filtered[r], filters[r])

\* A search without weather filter has been answered with a property without
\* coordinates on its page, next to one that carries a record of the provider.
C13_Witness ==
  /\ Answered(1, 200)
  /\ ~hasWeatherFilters(filters[1])
  /\ errs[1] = {}
  /\ \E i, j \in 1..Len(response[1].data) :
        /\ LacksCoordinates(response[1].data[i].id)
        /\ response[1].data[i].weather = createDefaultWeather
        /\ ~LacksCoordinates(response[1].data[j].id)
        /\ response[1].data[j].weather # createDefaultWeather
  /\ response[1].total = 3

\* C14: in a search without weather filter the lookups are made for the
\* properties of the returned page only, at most limit of them whenever any
\* is made, and total counts the structurally filtered sequence.
C14_OnlyThePageIsLookedUp ==
  \A r \in Reqs :
    (Answered(r, 200) /\ ~hasWeatherFilters(filters[r])) =>
      /\ Len(tasks[r]) = Len(response[r].data)
      /\ \A i \in 1..Len(tasks[r]) : input[r][i].id = response[r].data[i].id
      /\ tasks[r] # << >> => Len(tasks[r]) <= response[r].limit
      /\ response[r].total = Len(filtered[r])

\* The step answers request r with 200, either from the request cache or by a
\* search that found the snapshot and every weather entry it read in the cache.
AnswersFromCaches(r) ==
  /\ pc[r] # "done" /\ pc'[r] = "done"
  /\ response'[r].status = 200
  /\ \/ "requestHit" \in ops'[r]
     \/ "snapshotHit" \in ops'[r] /\ "weatherMiss" \notin ops'[r]

\* C15: with the store unchanged and no snapshot or weather entry expiring, a
\* search answered from the caches returns the ids, in order, and the total of
\* the previous search with the same query that was answered from the caches.
C15_RepeatedSearchSameAnswer ==
  [][ \A r \in Reqs :
        ( /\ AnswersFromCaches(r)
          /\ IsDefined(cacheKey'[r])
          /\ ValueOf(cacheKey'[r]) \in DOMAIN prev
          /\ prev[ValueOf(cacheKey'[r])].warm )
        => /\ idsOf(response'[r]) = prev[ValueOf(cacheKey'[r])].ids
           /\ response'[r].total = prev[ValueOf(cacheKey'[r])].total ]_vars

\* Lookup i of search r waits for the provider.
Fetches(r, i) == i \in 1..Len(tasks[r]) /\ tasks[r][i].st = "fetch"

\* C16: no two lookups that wait for the provider, of one search or of
\* concurrent searches, are for the same key of the weather cache.
C16_OneFetchPerCoordinateKey ==
  \A r1 \in Reqs, r2 \in Reqs :
    \A i \in 1..Len(tasks[r1]) : \A j \in 1..Len(tasks[r2]) :
      ( /\ Fetches(r1, i) /\ Fetches(r2, j)
        /\ weatherKey(input[r1][i]) = weatherKey(input[r2][j]) )
      => (r1 = r2 /\ i = j)

\* The step sends the success response of the /admin request `op`.
AdminSucceeds(op) ==
  /\ admin.pc # "done" /\ admin'.pc = "done"
  /\ admin'.op = op /\ admin'.status = 200

\* C17: when POST /admin/sync-all answers with success, the store has been
\* read during the call and the cached snapshot holds the active records of
\* that read.
C17_SyncAllLeavesFreshSnapshot ==
  [][ AdminSucceeds("sync") =>
        /\ admin.pc = "syncSet"
        /\ propsCache' = Some(admin.data) ]_vars

\* C18: when DELETE /admin/clear-cache answers with success, the cached
\* snapshot, the weather cache and the request cache are empty.
C18_ClearCacheEmptiesEverything ==
  [][ AdminSucceeds("clear") =>
        /\ propsCache' = Undefined
        /\ weatherCache' = EmptyCache
        /\ requestCache' = EmptyRequestCache ]_vars

\* The step answers request r with 200 after a search that found no snapshot in
\* the cache (cold, or expired).
AnswersAfterSnapshotMiss(r) ==
  /\ pc[r] # "done" /\ pc'[r] = "done"
  /\ response'[r].status = 200
  /\ "snapshotMiss" \in ops'[r]

\* The step settles lookup i of search r from the weather cache.
SettlesFromCache(r, i) ==
  /\ i \in 1..Len(tasks'[r])
  /\ tasks[r][i].st = "get" /\ tasks'[r][i].st = "resolved"

\* C19: a search that finds no snapshot in the cache queries the store and
\* answers from the active records of the store; a lookup settled from the
\* weather cache takes the entry present at that moment, an absent (expired)
\* entry is never returned; writing the snapshot leaves the weather cache
\* alone and writing a weather entry leaves the snapshot alone.
C19_ExpiredEntriesAreRefilled ==
  [][ /\ \A r \in Reqs :
           AnswersAfterSnapshotMiss(r) =>
             /\ "storeQuery" \in ops'[r]
             /\ filtered'[r] = basicFilter(redisData(db), filters'[r])
      /\ \A r \in Reqs : \A i \in 1..Len(tasks[r]) :
           SettlesFromCache(r, i) =>
             /\ weatherKey(input[r][i]) \in DOMAIN weatherCache
             /\ tasks'[r][i].weather = weatherCache[weatherKey(input[r][i])]
      /\ propsCache' # propsCache => weatherCache' = weatherCache
      /\ weatherCache' # weatherCache => propsCache' = propsCache ]_vars

\* C20: a search that found the snapshot in the cache makes no query to the
\* store, at any point up to its answer.
C20_WarmSearchSparesTheStore ==
  \A r \in Reqs : "snapshotHit" \in ops[r] => "storeQuery" \notin ops[r]

\* A search over a warm snapshot has been answered with records.
C20_Witness ==
  /\ Answered(1, 200)
  /\ "snapshotHit" \in ops[1]
  /\ response[1].total > 0
  /\ response[1].data # << >>

\* C21: a request answered 400 was answered by the step of its arrival, which
\* leaves the store, the snapshot and the weather cache as they were; no
\* cache read, store query or provider call is recorded for it.
C21_RejectedBeforeAnyAccess ==
  [][ \A r \in Reqs :
        (pc'[r] = "done" /\ response'[r].status = 400) =>
          /\ ops'[r] = {} /\ errs'[r] = {} /\ tasks'[r] = << >>
          /\ pc[r] # "done" =>
               /\ pc[r] = "idle"
               /\ UNCHANGED << db, propsCache, weatherCache >> ]_vars

\* A request with an out-of-range bound has been answered 400 while the
\* snapshot was in the cache.
C21_Witness ==
  /\ Answered(1, 400)
  /\ response[1].error # ""
  /\ validationError(filters[1]) # ""
  /\ IsDefined(propsCache)
  /\ ops[1] = {}

\* `text` contains `sub` as a substring when the case of letters is ignored.
ContainsIgnoringCase(text, sub) ==
  \E k \in 0..Len(text) :
    /\ k + Len(sub) <= Len(text)
    /\ \A j \in 1..Len(sub) : LowerChar(text[k + j]) = LowerChar(sub[j])

\* The record is kept by every structural filter that is present.
KeptByStructuralFilters(prop, f) ==
  /\ IsDefined(f.searchText) => ContainsIgnoringCase(prop.name, ValueOf(f.searchText))
  /\ IsDefined(f.city) => ContainsIgnoringCase(prop.city, ValueOf(f.city))
  /\ IsDefined(f.state) => ContainsIgnoringCase(prop.state, ValueOf(f.state))

\* The step takes search r from its read of the snapshot to the lookups.
AppliesStructuralFilters(r) ==
  pc[r] \in {"getProps", "reget"} /\ pc'[r] = "enrich"

\* The snapshot a search that reads the cache now works on.
SnapshotRead == IF IsDefined(propsCache) THEN ValueOf(propsCache) ELSE << >>

\* C22: the structurally filtered sequence of a search is exactly the records
\* of the snapshot it read whose name, city and state contain the searchText,
\* city and state filters that are present, case ignored, in snapshot order.
C22_StructuralFilterExact ==
  [][ \A r \in Reqs :
        AppliesStructuralFilters(r) =>
          filtered'[r] =
            SelectSeq(SnapshotRead, LAMBDA p : KeptByStructuralFilters(p, filters[r])) ]_vars

\* A search with all three structural filters, in the other case than the
\* records, has kept one record of the snapshot and dropped two.
C22_Witness ==
  /\ Answered(1, 200)
  /\ filters[1].searchText = Some(Text1("B"))
  /\ filters[1].city = Some(Text1("C"))
  /\ filters[1].state = Some(Text1("a"))
  /\ Len(filtered[1]) = 1
  /\ filtered[1][1].id = 1
  /\ response[1].total = 1

\* The condition the table of the specification gives to a weather code.
ConditionOfCode(code) ==
  CASE code \in 1..3 -> "Cloudy"
    [] code \in 51..57 -> "Drizzle"
    [] code \in (61..67) \cup (80..82) -> "Rainy"
    [] code \in (71..77) \cup (85..86) -> "Snow"
    [] OTHER -> "Clear"

\* fetchFreshWeather has returned its record.
FetchReturned == call.fn = "fetchFreshWeather" /\ IsDefined(call.result)

\* C23: the record fetchFreshWeather builds carries the condition the table
\* gives to the provider's weather code, Clear for every code outside the
\* table, and that condition is one of the five allowed values.
C23_WeatherCodeTable ==
  FetchReturned =>
    /\ ValueOf(call.result).condition = ConditionOfCode(call.arg.weather_code)
    /\ ValueOf(call.result).condition \in validWeatherConditions

\* A code outside the table (199) has been mapped.
C23_Witness ==
  /\ FetchReturned
  /\ call.arg.weather_code = 199
  /\ ValueOf(call.result).condition = "Clear"

\* The snapshot records whose name contains q, case ignored, in snapshot order.
NameMatches(q) ==
  SelectSeq(redisData(db), LAMBDA p : ContainsIgnoringCase(p.name, q))

\* Request r came in on /suggestions and has been answered.
Suggested(r) == pc[r] = "done" /\ "suggestions" \in ops[r]

\* C24: /suggestions answers the empty list when q is absent or shorter than
\* two characters; otherwise a 200 answer holds the first records of the
\* sequence of properties whose name contains q, case ignored, in that order,
\* ten of them at most, each as { id, label, value, city, state }.
C24_SuggestionsFirstTenMatches ==
  \A r \in Reqs :
    Suggested(r) =>
      LET q == filters[r].searchText
          data == response[r].data
      IN  IF ~IsDefined(q) \/ Len(ValueOf(q)) < 2
          THEN response[r].status = 200 /\ data = << >>
          ELSE response[r].status = 200 =>
                 /\ Len(data) <= 10
                 /\ Len(data) = Min(10, Len(NameMatches(ValueOf(q))))
                 /\ \A i \in 1..Len(data) :
                       LET p == NameMatches(ValueOf(q))[i]
                       IN  /\ data[i].id = p.id
                           /\ data[i].value = p.name
                           /\ data[i].city = p.city /\ data[i].state = p.state
                           /\ ContainsIgnoringCase(data[i].value, ValueOf(q))

\* /suggestions?q=AB has been answered with ten of the eleven properties
\* whose name matches.
C24_Witness ==
  /\ Suggested(1)
  /\ response[1].status = 200
  /\ filters[1].searchText = Some(Text2("A", "B"))
  /\ Len(NameMatches(Text2("A", "B"))) = 11
  /\ Len(response[1].data) = 10

\* The messages of the errors the collaborators throw.
UnderlyingMessages == {"cacheRead", "cacheWrite", "store", "provider"}

\* C25: a 500 response, of a search or of /metrics, carries the message of the
\* error that occurred only when NODE_ENV is development.
C25_ErrorMessageOnlyInDevelopment ==
  /\ \A r \in Reqs :
        (response[r].status = 500 /\ response[r].message \in UnderlyingMessages)
          => nodeEnv = "development"
  /\ (admin.status = 500 /\ admin.message \in UnderlyingMessages)
          => nodeEnv = "development"

\* C26: getWeatherBatch returns the cached record for every coordinate that
\* has an entry in the weather cache, and no provider call is made (so none
\* can fail) for such a coordinate.
C26_BatchServesCachedRecords ==
  \A i \in 1..Len(wb.results) :
    wb.coords[i] \in DOMAIN weatherCache =>
      /\ wb.results[i] = weatherCache[wb.coords[i]]
      /\ i \notin wb.failed

\* The record lies within every bound that is given: the ranges are inclusive
\* and the condition, when one is named (an empty string names none), is met
\* exactly.
WithinGivenBounds(w, f) ==
  /\ IsDefined(f.tempMin) => ValueOf(f.tempMin) <= w.temperature
  /\ IsDefined(f.tempMax) => w.temperature <= ValueOf(f.tempMax)
  /\ IsDefined(f.humidityMin) => ValueOf(f.humidityMin) <= w.humidity
  /\ IsDefined(f.humidityMax) => w.humidity <= ValueOf(f.humidityMax)
  /\ (IsDefined(f.weatherCondition) /\ ValueOf(f.weatherCondition) # "")
        => w.condition = ValueOf(f.weatherCondition)

\* No bound is given.
NoBoundGiven(f) ==
  /\ ~IsDefined(f.tempMin) /\ ~IsDefined(f.tempMax)
  /\ ~IsDefined(f.humidityMin) /\ ~IsDefined(f.humidityMax)
  /\ ~IsDefined(f.weatherCondition)

\* s is t without some of its elements, the others in the same order.
RECURSIVE IsSubsequence(_, _)
IsSubsequence(s, t) ==
  IF s = << >> THEN TRUE
  ELSE IF t = << >> THEN FALSE
  ELSE IF Head(s) = Head(t) THEN IsSubsequence(Tail(s), Tail(t))
  ELSE IsSubsequence(s, Tail(t))

FilterReturned == call.fn = "filterByWeather" /\ IsDefined(call.result)

\* C27: filterByWeather returns the input records that lie within every given
\* bound, all of them and no other, in input order; with no bound given it
\* returns its input.
C27_FilterByWeatherExact ==
  FilterReturned =>
    LET out == ValueOf(call.result)
        data == call.arg.data
        f == call.arg.filters
    IN  /\ IsSubsequence(out, data)
        /\ \A i \in 1..Len(out) : WithinGivenBounds(out[i], f)
        /\ Len(out) = Cardinality({ i \in 1..Len(data) : WithinGivenBounds(data[i], f) })
        /\ NoBoundGiven(f) => out = data

\* A bound of 0 has dropped the record below it and kept the record above it.
C27_Witness ==
  /\ FilterReturned
  /\ call.arg.filters.tempMin = Some(0)
  /\ call.arg.data = << Weather(-5, 81, "Snow"), Weather(25, 60, "Clear") >>
  /\ ValueOf(call.result) = << Weather(25, 60, "Clear") >>

\* The filters hold at least one weather bound and pass the validation.
InRangeWeatherFilters(f) == hasWeatherFilters(f) /\ validationError(f) = ""

\* C28: a request with in-range weather filters, when no collaborator fails,
\* is answered 200 with a body that has a metrics field.
C28_WeatherSearchCarriesMetrics ==
  \A r \in Reqs :
    (pc[r] = "done" /\ errs[r] = {} /\ InRangeWeatherFilters(filters[r])) =>
      /\ response[r].status = 200
      /\ "metrics" \in response[r].keys

\* Lookup i of search r has got the answer of its cache read: it has gone on
\* to the provider or is settled.  (A property without coordinates is given
\* the default record without a lookup.)
LookupUnderWay(r, i) ==
  /\ i \in 1..Len(tasks[r])
  /\ input[r][i].lat # 0 /\ input[r][i].lng # 0
  /\ tasks[r][i].st \in {"fetch", "resolved", "rejected"}

\* C29: while the loop of attachWeatherData awaits the group that begins at
\* index batchI, or sits in the delay after it, no lookup of a later group is
\* under way.
C29_GroupsStartInTurn ==
  \A r \in Reqs :
    pc[r] \in {"enrich", "delay"} =>
      \A i \in 1..Len(tasks[r]) :
        LookupUnderWay(r, i) => i <= batchI[r] + batchSize

\* C30: every entry of the weather cache is the record built from the
\* provider's answer for its coordinate; the default record of a failed call
\* is never an entry.
C30_CacheHoldsProviderRecordsOnly ==
  \A key \in DOMAIN weatherCache :
    /\ weatherCache[key] = fetchFreshWeather(ProviderReading(key))
    /\ weatherCache[key] # createDefaultWeather

\* C31: the cached snapshot never goes backwards: a reload never replaces the
\* snapshot in the cache by one read from the store earlier than it.  In
\* SpecReload the store only loses active properties, so the snapshot that
\* replaces another never holds more records than the one it replaces.
C31_SnapshotNeverGoesBackwards ==
  [][ (IsDefined(propsCache) /\ IsDefined(propsCache'))
        => Len(ValueOf(propsCache')) <= Len(ValueOf(propsCache)) ]_vars

\* The store row of a property.
StoreRow(id) == CHOOSE row \in db : row.id = id

\* The store row of a property has both a latitude and a longitude.
HasCoordinates(id) ==
  \E row \in db : row.id = id /\ IsDefined(row.lat) /\ IsDefined(row.lng)

\* The record the provider gives for the coordinates of a store row.
WeatherAt(row) ==
  fetchFreshWeather(ProviderReading(<< ToFixed4(ValueOf(row.lat)), ToFixed4(ValueOf(row.lng)) >>))

\* C32: every property whose store record has both a latitude and a longitude,
\* a latitude or longitude of 0 included, is enriched with the weather of its
\* own coordinates.  In SpecEquator the provider always answers, so that
\* weather is the provider's record for those coordinates, read from the
\* cache or fetched.
C32_ZeroIsACoordinate ==
  \A r \in Reqs :
    Served(r) =>
      \A i \in 1..Len(results[r]) :
        HasCoordinates(results[r][i].id) =>
          results[r][i].weather = WeatherAt(StoreRow(results[r][i].id))

\* The ids of pages 0..(n - 1) of the search `base` with limit L, one after
\* the other, as the client received them.
RECURSIVE PagesSoFar(_, _, _)
PagesSoFar(base, L, n) ==
  IF n = 0 THEN << >>
  ELSE PagesSoFar(base, L, n - 1) \o prev[PageQuery(base, L, n - 1)].ids

\* The number of pages of size L that hold `total` records.
PageCount(total, L) == (total + L - 1) \div L

\* The client has had every page of the search `base` with limit L, and the
\* answer of the same search asked for everything at once.
PagedThrough(base, L) ==
  /\ WholeQuery(base) \in DOMAIN prev
  /\ PageQuery(base, L, 0) \in DOMAIN prev
  /\ \A k \in 0..(PageCount(prev[PageQuery(base, L, 0)].total, L) - 1) :
        PageQuery(base, L, k) \in DOMAIN prev

\* The ids are those of store rows in ascending order of name.
InNameOrder(ids) ==
  \A i \in 1..(Len(ids) - 1) : RowBefore(StoreRow(ids[i]), StoreRow(ids[i + 1]))

\* C33: for fixed filters over an unchanged snapshot and weather cache, the
\* pages at offsets 0, L, 2L, ... report the same total, share no record, are
\* in ascending order of name, and one after the other make up the filtered
\* sequence (what the search returns when asked for everything at once),
\* which has total records.
C33_PagesPartitionTheResult ==
  \A base \in PageFilters, L \in PageSizes :
    PagedThrough(base, L) =>
      LET total == prev[PageQuery(base, L, 0)].total
          n == PageCount(total, L)
          all == PagesSoFar(base, L, n)
      IN  /\ \A k \in 0..(n - 1) : prev[PageQuery(base, L, k)].total = total
          /\ \A i, j \in 1..Len(all) : all[i] = all[j] => i = j
          /\ InNameOrder(all)
          /\ all = prev[WholeQuery(base)].ids
          /\ Len(all) = total
          /\ prev[WholeQuery(base)].total = total
          /\ base = NoQuery =>
               all = [i \in 1..Len(findManyActive(db)) |-> findManyActive(db)[i].id]

\* The client has paged through a weather-filtered search two records at a
\* time: three records match, the second page holds the last of them.
C33_Witness ==
  LET base == [NoQuery EXCEPT !.tempMin = Some(20)]
  IN  /\ PagedThrough(base, 2)
      /\ prev[PageQuery(base, 2, 0)].total = 3
      /\ Len(prev[PageQuery(base, 2, 0)].ids) = 2
      /\ Len(prev[PageQuery(base, 2, 1)].ids) = 1

\* C34: a request that GET /get-properties accepts, whatever its limit and
\* offset, is answered with no more records in data than the limit reported
\* in pagination.limit.  Stated for the answers that carry a record: an empty
\* page under a negative limit is left aside.
C34_PageNeverLongerThanLimit ==
  \A r \in Reqs :
    (Answered(r, 200) /\ response[r].data # << >>) =>
      Len(response[r].data) <= response[r].limit

\* The route handler of request r is running: the request went past the
\* middleware and has not been answered yet.
HandlerRunning(r) == pc[r] \notin {"idle", "done"}

\* C35: two identical requests (same method and URL) in flight at the same
\* time cause one execution of the route handler: the handler never runs for
\* two requests with the same middleware key at once.
C35_IdenticalRequestsShareOneRun ==
  \A r1, r2 \in Reqs :
    (r1 # r2 /\ HandlerRunning(r1) /\ HandlerRunning(r2)) => cacheKey[r1] # cacheKey[r2]

C37_HealthReportsProbes ==
  (call.fn = "health" /\ call.result # << >>) =>
    \A dep \in {"database", "cache", "redis"} :
      (ValueOf(call.result)[dep] = "connected") <=> call.arg[dep]

\* The weather searchWithDatabase is to find for a store row with coordinates:
\* the provider's record for them, the default record when the call failed.
LookedUpWeather(row, failed) ==
  IF row.id \in failed THEN createDefaultWeather ELSE WeatherAt(row)

\* The ids of the store rows that match the structural predicates, have a
\* latitude and a longitude, and whose weather meets every present bound, in
\* ascending order of name.
WeatherFilteredRows(f, failed) ==
  LET rows == OrderByName({ row \in db : matchesWhere(row, f) })
      kept == SelectSeq(rows, LAMBDA row :
                /\ HasCoordinates(row.id)
                /\ MeetsPresentBounds(LookedUpWeather(row, failed), f))
  IN  [i \in 1..Len(kept) |-> kept[i].id]

\* A call of searchWithDatabase with a weather filter has returned.
DatabaseSearchReturned ==
  /\ call.fn = "searchWithDatabase"
  /\ call.result # << >>
  /\ PropertyService_hasWeatherFilters(call.arg.filters)

\* C38: with a weather filter present, searchWithDatabase looks up the weather
\* of every store row that matches the structural predicates before it
\* paginates: the rows without coordinates are left out, total and hasMore are
\* those of the whole weather-filtered set, and the page is cut from that set.
C38_DatabaseSearchEnrichesBeforePaging ==
  DatabaseSearchReturned =>
    LET f == call.arg.filters
        result == ValueOf(call.result)
        full == WeatherFilteredRows(f, call.arg.failed)
    IN  /\ result.total = Len(full)
        /\ result.hasMore = (offsetOf(f) + limitOf(f) < Len(full))
        /\ [i \in 1..Len(result.properties) |-> result.properties[i].id]
             = Slice(full, offsetOf(f), offsetOf(f) + limitOf(f))

====
